---- MODULE Spec2Model ----
(***************************************************************************)
(* Jellyfin Discovery Proxy: the UDP listen loops, the per-request         *)
(* handlers, the identity caches, the blacklist and the request stats.     *)
(***************************************************************************)
EXTENDS Integers, Sequences, FiniteSets, Bags, TLC

(***************************************************************************)
(* Bounds of the model.                                                    *)
(***************************************************************************)
\* number of discovery queries accepted in one run
MaxHandlers == 2
\* last value of the clock
MaxTime == 2
\* number of goroutines followed statement by statement inside the locked methods
MaxGoroutines == 3

\* time.Time{} (the zero time); the clock starts after it
ZeroTime == 0
StartTime == ZeroTime + 1

(***************************************************************************)
(* Text: a string is a sequence of one-character strings.                  *)
(***************************************************************************)
UpperChars == <<"W", "H", "O", "I", "S", "J", "E", "L", "Y", "F", "N", "R", "V">>
LowerChars == <<"w", "h", "o", "i", "s", "j", "e", "l", "y", "f", "n", "r", "v">>

\* strings.EqualFold folds each pair of characters to a common case
FoldChar(c) ==
    IF \E i \in 1..Len(UpperChars) : UpperChars[i] = c
    THEN LowerChars[CHOOSE i \in 1..Len(UpperChars) : UpperChars[i] = c]
    ELSE c

EqualFold(s, t) ==
    /\ Len(s) = Len(t)
    /\ \A i \in 1..Len(s) : FoldChar(s[i]) = FoldChar(t[i])

\* the literal "Who is JellyfinServer?"
DiscoveryQuery ==
    <<"W", "h", "o", " ", "i", "s", " ",
      "J", "e", "l", "l", "y", "f", "i", "n",
      "S", "e", "r", "v", "e", "r", "?">>

ToUpperChar(c) ==
    IF \E i \in 1..Len(LowerChars) : LowerChars[i] = c
    THEN UpperChars[CHOOSE i \in 1..Len(LowerChars) : LowerChars[i] = c]
    ELSE c

\* payloads a client may put in a datagram
Payloads ==
    { DiscoveryQuery,
      [i \in 1..Len(DiscoveryQuery) |-> ToUpperChar(DiscoveryQuery[i])],
      SubSeq(DiscoveryQuery, 1, Len(DiscoveryQuery) - 1) }

(***************************************************************************)
(* IP addresses.  An address is a family and a number (a small address     *)
(* space of AddrBits bits); a text names an address in the canonical       *)
(* spelling net.IP.String() prints or in another spelling net.ParseIP      *)
(* accepts ("2001:DB8::1", "::ffff:10.0.0.1").                             *)
(***************************************************************************)
AddrBits == 4

RECURSIVE Pow2(_)
Pow2(n) == IF n <= 0 THEN 1 ELSE 2 * Pow2(n - 1)

NoIP == [fam |-> "none", val |-> 0]
IPv4(v) == [fam |-> "ip4", val |-> v]
IPv6(v) == [fam |-> "ip6", val |-> v]

\* a text: kind "ip" (a well-formed address text), "cidr", "bad" or "empty"
IPText(ip, form) == [kind |-> "ip", ip |-> ip, form |-> form, bits |-> 0]
CIDRText(ip, bits) == [kind |-> "cidr", ip |-> ip, form |-> "canon", bits |-> bits]
BadText == [kind |-> "bad", ip |-> NoIP, form |-> "canon", bits |-> 0]
BadCIDRText == [kind |-> "cidr", ip |-> NoIP, form |-> "canon", bits |-> 0]
EmptyText == [kind |-> "empty", ip |-> NoIP, form |-> "canon", bits |-> 0]

\* net.IP.String(): the canonical spelling
IPString(ip) == IPText(ip, "canon")

\* net.ParseIP: the address a well-formed text names, nil otherwise
ParseIP(text) == IF text.kind = "ip" THEN text.ip ELSE NoIP

\* net.ParseCIDR: the network (masked base address and prefix length)
ParseCIDR(text) ==
    IF text.kind = "cidr" /\ text.ip # NoIP
    THEN [ok |-> TRUE, fam |-> text.ip.fam, bits |-> text.bits,
          base |-> (text.ip.val \div Pow2(AddrBits - text.bits)) * Pow2(AddrBits - text.bits)]
    ELSE [ok |-> FALSE, fam |-> "none", bits |-> 0, base |-> 0]

\* net.IPNet.Contains
Contains(subnet, ip) ==
    /\ ip.fam = subnet.fam
    /\ (ip.val \div Pow2(AddrBits - subnet.bits)) * Pow2(AddrBits - subnet.bits) = subnet.base

(***************************************************************************)
(* pkg/blacklist and types.IPBlacklist                                     *)
(***************************************************************************)
RECURSIVE BlacklistAddStopsAtBad(_, _)
\* the loop of blacklist.New giving up at the first malformed entry
BlacklistAddStopsAtBad(bl, entries) ==
    IF entries = <<>> THEN bl
    ELSE LET entry == Head(entries)
             rest == Tail(entries)
         IN  IF entry.kind = "empty" THEN BlacklistAddStopsAtBad(bl, rest)
             ELSE IF entry.kind = "cidr"
             THEN IF ~ParseCIDR(entry).ok THEN bl
                  ELSE BlacklistAddStopsAtBad([bl EXCEPT !.Subnets = Append(@, ParseCIDR(entry))],
                                              rest)
             ELSE IF ParseIP(entry) = NoIP THEN bl
                  ELSE BlacklistAddStopsAtBad([bl EXCEPT !.IPs = @ \cup {entry}], rest)

RECURSIVE BlacklistAdd(_, _)
\* the loop of blacklist.New over the entries of the split string
BlacklistAdd(bl, entries) ==
    IF entries = <<>> THEN bl
    ELSE LET entry == Head(entries)
             rest == Tail(entries)
         IN  IF entry.kind = "empty" THEN BlacklistAdd(bl, rest)
             ELSE IF entry.kind = "cidr"
             THEN IF ~ParseCIDR(entry).ok THEN BlacklistAdd(bl, rest)
                  ELSE BlacklistAdd([bl EXCEPT !.Subnets = Append(@, ParseCIDR(entry))], rest)
             ELSE IF ParseIP(entry) = NoIP THEN BlacklistAdd(bl, rest)
                  ELSE BlacklistAdd([bl EXCEPT !.IPs = @ \cup {entry}], rest)

BlacklistNew(blacklistStr) ==
    BlacklistAdd([IPs |-> {}, Subnets |-> <<>>], blacklistStr)

IsBlocked(bl, ipStr) ==
    IF ipStr \in bl.IPs THEN TRUE
    ELSE IF ParseIP(ipStr) = NoIP THEN FALSE
    ELSE \E i \in 1..Len(bl.Subnets) : Contains(bl.Subnets[i], ParseIP(ipStr))

Count(bl) == Cardinality(bl.IPs) + Len(bl.Subnets)

(***************************************************************************)
(* types.SystemInfoResponse and types.ServerInfoCache                      *)
(***************************************************************************)
\* a nil *SystemInfoResponse
NilInfo == [nil |-> TRUE, Id |-> "", ServerName |-> ""]
SystemInfoResponse(id, name) == [nil |-> FALSE, Id |-> id, ServerName |-> name]

CacheNew(cacheDuration) ==
    [Info |-> NilInfo, Timestamp |-> ZeroTime, Duration |-> cacheDuration]

\* Get with the entry still alive when exactly the duration has elapsed
GetInclusive(c, t) ==
    IF ~c.Info.nil /\ (c.Duration = 0 \/ t - c.Timestamp <= c.Duration)
    THEN c.Info
    ELSE NilInfo

\* Get without the case of the duration 0
GetAlwaysExpires(c, t) ==
    IF ~c.Info.nil /\ t - c.Timestamp < c.Duration
    THEN c.Info
    ELSE NilInfo

\* ServerInfoCache.Get at time t
\* Get returning the stored identity whatever its age
GetIgnoresAge(c, t) == IF ~c.Info.nil THEN c.Info ELSE NilInfo

Get(c, t) ==
    IF ~c.Info.nil /\ (c.Duration = 0 \/ t - c.Timestamp < c.Duration)
    THEN c.Info
    ELSE NilInfo

\* ServerInfoCache.Set at time t
Set(c, info, t) == [c EXCEPT !.Info = info, !.Timestamp = t]

\* RecordRequest without the increment of the counter
RecordRequestKeepsCount(rs, ip, t) ==
    [LastRequestTime |-> t, LastRequestIP |-> ip, TotalRequests |-> rs.TotalRequests]

\* RequestStats.RecordRequest at time t
RecordRequest(rs, ip, t) ==
    [LastRequestTime |-> t, LastRequestIP |-> ip, TotalRequests |-> rs.TotalRequests + 1]

\* RequestStats.GetStats
GetStats(rs) == <<rs.LastRequestTime, rs.LastRequestIP, rs.TotalRequests>>

(***************************************************************************)
(* URLs.  A URL string is "" (kind "empty"), a string url.Parse rejects    *)
(* (kind "bad") or scheme://host[:port]; the host is a name, an IPv4       *)
(* literal or an IPv6 literal in brackets.                                 *)
(***************************************************************************)
NoHost == [kind |-> "none", name |-> "", ip |-> NoIP, bracketed |-> FALSE]
NameHost(n) == [kind |-> "name", name |-> n, ip |-> NoIP, bracketed |-> FALSE]
IP4Host(ip) == [kind |-> "ip", name |-> "", ip |-> ip, bracketed |-> FALSE]
IP6Host(ip) == [kind |-> "ip", name |-> "", ip |-> ip, bracketed |-> TRUE]

\* the empty string, a text url.Parse rejects, and scheme://host[:port]path
EmptyURL == [kind |-> "empty", scheme |-> "", host |-> NoHost, port |-> "", path |-> ""]
BadURL == [kind |-> "bad", scheme |-> "", host |-> NoHost, port |-> "", path |-> ""]
URLOf(scheme, host, port, path) ==
    [kind |-> "url", scheme |-> scheme, host |-> host, port |-> port, path |-> path]
URL(host, port) == URLOf("http", host, port, "")
\* a text without "//": url.Parse gives a path and no host
PathURL(path) == URLOf("", NoHost, "", path)

\* net.SplitHostPort(parsedURL.Host) and the fallback host = parsedURL.Host:
\* with a port the brackets of an IPv6 literal are removed, without one the
\* split fails and the host keeps them
SplitHost(u) == IF u.port # "" THEN [u.host EXCEPT !.bracketed = FALSE] ELSE u.host

\* net.ParseIP of a host text
ParseHostIP(host) == IF host.kind = "ip" /\ ~host.bracketed THEN host.ip ELSE NoIP

\* server.IsHostname
IsHostname(urlStr) ==
    IF urlStr.kind = "bad" THEN FALSE
    ELSE ParseHostIP(SplitHost(urlStr)) = NoIP

\* the addresses of 127.0.0.0/8 and ::1 in the small address space
LoopbackVal == Pow2(AddrBits) - 1
IsLoopback(ip) == ip.val = LoopbackVal
To4(ip) == IF ip.fam = "ip4" THEN ip ELSE NoIP

\* the answers net.LookupIP may give for a name
LookupResults ==
    { [err |-> TRUE, ips |-> <<>>],
      [err |-> FALSE, ips |-> <<IPv6(6)>>],
      [err |-> FALSE, ips |-> <<IPv4(LoopbackVal)>>],
      [err |-> FALSE, ips |-> <<IPv6(6), IPv4(LoopbackVal), IPv4(4), IPv4(5)>>] }

\* net.LookupIP(host): a text that is no domain name has no answer
LookupIP(host) ==
    IF host.kind = "name"
    THEN LookupResults
    ELSE IF host.kind = "ip" /\ ~host.bracketed
    THEN {[err |-> FALSE, ips |-> <<host.ip>>]}
    ELSE {[err |-> TRUE, ips |-> <<>>]}

RECURSIVE FirstIPv4(_)
\* the loop of ResolveHostnameToIP: the first non-loopback IPv4 address
FirstIPv4(ips) ==
    IF ips = <<>> THEN NoIP
    ELSE IF To4(Head(ips)) # NoIP /\ ~IsLoopback(Head(ips)) THEN To4(Head(ips))
    ELSE FirstIPv4(Tail(ips))

\* ResolveHostnameToIP leaving the port out of the new host
ResolveHostnameToIPWithoutPort(urlStr, answer) ==
    IF urlStr.kind = "bad" THEN [err |-> TRUE, url |-> EmptyURL]
    ELSE IF answer.err THEN [err |-> TRUE, url |-> EmptyURL]
    ELSE IF FirstIPv4(answer.ips) = NoIP THEN [err |-> TRUE, url |-> EmptyURL]
    ELSE [err |-> FALSE,
          url |-> [urlStr EXCEPT !.host = IP4Host(FirstIPv4(answer.ips)), !.port = ""]]

\* server.ResolveHostnameToIP, given the answer of net.LookupIP
ResolveHostnameToIP(urlStr, answer) ==
    IF urlStr.kind = "bad" THEN [err |-> TRUE, url |-> EmptyURL]
    ELSE IF answer.err THEN [err |-> TRUE, url |-> EmptyURL]
    ELSE IF FirstIPv4(answer.ips) = NoIP THEN [err |-> TRUE, url |-> EmptyURL]
    ELSE [err |-> FALSE, url |-> [urlStr EXCEPT !.host = IP4Host(FirstIPv4(answer.ips))]]

(***************************************************************************)
(* The upstream: what the GET of <serverURL>/System/Info/Public may give.  *)
(***************************************************************************)
StatusOK == 200

\* a key the JSON object of the body does not have
Absent == "<absent>"

HTTPAnswer(transport, status, body, id, name) ==
    [transport |-> transport, status |-> status, body |-> body, Id |-> id, ServerName |-> name]

\* what Decode leaves in a string field of the struct: the value of the key,
\* or the zero value of the field when the object has no such key
JSONString(value) == IF value = Absent THEN "" ELSE value

UpstreamAnswers ==
    { HTTPAnswer("error", 0, "", "", ""),
      HTTPAnswer("ok", 503, "json", "abc123", "Home Media"),
      HTTPAnswer("ok", 203, "json", "abc123", "Home Media"),
      HTTPAnswer("ok", StatusOK, "malformed", "", ""),
      HTTPAnswer("ok", StatusOK, "json", "abc123", "Home Media"),
      HTTPAnswer("ok", StatusOK, "json", "def456", "Den Media"),
      HTTPAnswer("ok", StatusOK, "json", "abc123", Absent) }

\* FetchInfo taking every status from 200 to 299 for a success
FetchInfoAnySuccess(answer) ==
    IF answer.transport # "ok" THEN [err |-> TRUE, info |-> NilInfo]
    ELSE IF answer.status \notin StatusOK..299 THEN [err |-> TRUE, info |-> NilInfo]
    ELSE IF answer.body # "json" THEN [err |-> TRUE, info |-> NilInfo]
    ELSE [err |-> FALSE,
          info |-> SystemInfoResponse(JSONString(answer.Id), JSONString(answer.ServerName))]

\* server.FetchInfo, given the answer of the upstream
FetchInfo(answer) ==
    IF answer.transport # "ok" THEN [err |-> TRUE, info |-> NilInfo]
    ELSE IF answer.status # StatusOK THEN [err |-> TRUE, info |-> NilInfo]
    ELSE IF answer.body # "json" THEN [err |-> TRUE, info |-> NilInfo]
    ELSE [err |-> FALSE,
          info |-> SystemInfoResponse(JSONString(answer.Id), JSONString(answer.ServerName))]

(***************************************************************************)
(* types.JellyfinDiscoveryResponse and its JSON form                       *)
(***************************************************************************)
\* the response with the fields Id and Name filled from each other's source
JellyfinDiscoveryResponseSwapped(addressURL, serverInfo) ==
    [Address |-> addressURL, Id |-> serverInfo.ServerName, Name |-> serverInfo.Id,
     EndpointAddress |-> "nil"]

JellyfinDiscoveryResponse(addressURL, serverInfo) ==
    [Address |-> addressURL, Id |-> serverInfo.Id, Name |-> serverInfo.ServerName,
     EndpointAddress |-> "nil"]

\* json.Marshal: the object with the keys of the struct tags; nil is null
Marshal(response) ==
    [Address |-> response.Address, Id |-> response.Id, Name |-> response.Name,
     EndpointAddress |-> IF response.EndpointAddress = "nil" THEN "null"
                         ELSE response.EndpointAddress]

(***************************************************************************)
(* Configuration: what config.Load, blacklist.New and cache.GetDuration    *)
(* hand to main.                                                           *)
(***************************************************************************)
ServerV4 == URL(IP4Host(IPv4(2)), "8096")
ServerV6 == URL(IP6Host(IPv6(2)), "8096")

\* PROXY_URL is a name: dual responses
ConfigName ==
    [ServerURLv4 |-> ServerV4, ServerURLv6 |-> ServerV6,
     ProxyURLv4 |-> URL(NameHost("jellyfin.local"), "8096"),
     ProxyURLv6 |-> URL(NameHost("jellyfin.local"), ""), BindIP |-> "0.0.0.0"]
\* the proxy URLs are literal addresses
ConfigLiteral ==
    [ServerURLv4 |-> ServerV4, ServerURLv6 |-> ServerV6,
     ProxyURLv4 |-> URL(IP4Host(IPv4(3)), "8096"),
     ProxyURLv6 |-> URL(IP6Host(IPv6(3)), ""), BindIP |-> "0.0.0.0"]
\* PROXY_URL=/ : the trailing slash is trimmed and nothing is left; one
\* server URL for both families; NETWORK_INTERFACE names an interface
ConfigEmpty ==
    [ServerURLv4 |-> ServerV4, ServerURLv6 |-> ServerV4,
     ProxyURLv4 |-> EmptyURL, ProxyURLv6 |-> EmptyURL, BindIP |-> "192.168.1.5"]
\* no PROXY_URL, and a JELLYFIN_SERVER_URL with a name for its host
ConfigUpstreamName ==
    [ServerURLv4 |-> URL(NameHost("jellyfin.local"), "8096"),
     ServerURLv6 |-> URL(NameHost("jellyfin.local"), "8096"),
     ProxyURLv4 |-> EmptyURL, ProxyURLv6 |-> EmptyURL, BindIP |-> "0.0.0.0"]

\* the UDP sockets createUDPListeners may bind and their local addresses
Conns == {"udp4", "udp6"}
LocalAddr(c) == IF c = "udp6" THEN "[::]:7359" ELSE "0.0.0.0:7359"
\* the test of startListeners that takes no socket for an IPv6 one
IsIPv6ListenerNever(c) == FALSE
\* strings.Contains(c.LocalAddr().String(), "[")
IsIPv6Listener(c) == LocalAddr(c) = "[::]:7359"

\* what net.ResolveUDPAddr and net.ListenUDP do for the two families: TRUE
\* for success
BindOutcome(resolve6, listen6, resolve4, listen4) ==
    [resolve6 |-> resolve6, listen6 |-> listen6, resolve4 |-> resolve4, listen4 |-> listen4]
BindOutcomes ==
    {BindOutcome(r6, l6, r4, l4) : r6 \in BOOLEAN, l6 \in BOOLEAN, r4 \in BOOLEAN, l4 \in BOOLEAN}

\* createUDPListeners halting whenever the IPv4 socket cannot be bound
CreateUDPListenersNeedsIPv4(bindIP, b) ==
    LET conns6 == IF bindIP = "0.0.0.0" /\ b.resolve6 /\ b.listen6 THEN <<"udp6">> ELSE <<>>
    IN  IF ~b.resolve4 \/ ~b.listen4 THEN [err |-> TRUE, conns |-> <<>>]
        ELSE [err |-> FALSE, conns |-> Append(conns6, "udp4")]

\* main.createUDPListeners(bindIP): the error and the sockets it returns
CreateUDPListeners(bindIP, b) ==
    LET conns6 == IF bindIP = "0.0.0.0" /\ b.resolve6 /\ b.listen6 THEN <<"udp6">> ELSE <<>>
    IN  IF ~b.resolve4 THEN [err |-> TRUE, conns |-> <<>>]
        ELSE IF ~b.listen4
        THEN IF Len(conns6) = 0 THEN [err |-> TRUE, conns |-> <<>>]
             ELSE [err |-> FALSE, conns |-> conns6]
        ELSE IF Len(Append(conns6, "udp4")) = 0 THEN [err |-> TRUE, conns |-> <<>>]
        ELSE [err |-> FALSE, conns |-> Append(conns6, "udp4")]

\* the upstream answers with a failure
FailedAnswers == {a \in UpstreamAnswers : FetchInfo(a).err}
\* the first identity of the upstream
HomeMedia == HTTPAnswer("ok", StatusOK, "json", "abc123", "Home Media")

\* The deployments of the model: the configuration config.Load returns, the
\* cache duration of cache.GetDuration (in clock units), and what the
\* surroundings do in the run: the outcomes of binding the sockets (IPv6
\* unavailable; port 7359 taken for IPv4; both free; the interface address
\* free or taken), the answers of the upstream, the results of WriteToUDP
\* and the payloads the requesters send.
Deployments ==
    { [cfg |-> ConfigName, cacheDuration |-> 2,
       binds |-> {BindOutcome(TRUE, FALSE, TRUE, TRUE), BindOutcome(TRUE, TRUE, TRUE, FALSE)},
       upstream |-> {HTTPAnswer("ok", 503, "json", "abc123", "Home Media"), HomeMedia},
       writes |-> {TRUE}, payloads |-> {DiscoveryQuery}],
      [cfg |-> ConfigName, cacheDuration |-> 0,
       binds |-> {BindOutcome(TRUE, TRUE, TRUE, FALSE)},
       upstream |-> {HomeMedia},
       writes |-> {TRUE, FALSE}, payloads |-> {DiscoveryQuery}],
      [cfg |-> ConfigLiteral, cacheDuration |-> 0,
       binds |-> {BindOutcome(TRUE, TRUE, TRUE, TRUE)},
       upstream |-> {HomeMedia},
       writes |-> {TRUE, FALSE}, payloads |-> Payloads],
      [cfg |-> ConfigEmpty, cacheDuration |-> 1,
       binds |-> {BindOutcome(TRUE, TRUE, TRUE, TRUE), BindOutcome(TRUE, TRUE, TRUE, FALSE)},
       upstream |-> {a \in UpstreamAnswers : a.Id # Absent /\ a.ServerName # Absent},
       writes |-> {TRUE}, payloads |-> {DiscoveryQuery}],
      [cfg |-> ConfigUpstreamName, cacheDuration |-> 0,
       binds |-> {BindOutcome(TRUE, FALSE, TRUE, TRUE)},
       upstream |-> {a \in UpstreamAnswers : a.ServerName = Absent},
       writes |-> {TRUE}, payloads |-> {DiscoveryQuery}] }

\* BLACKLIST, split at the commas
BlacklistString ==
    <<IPText(IPv4(1), "canon"), BadText, EmptyText, CIDRText(IPv6(9), AddrBits - 2),
      BadCIDRText>>

\* the requesters
UDPAddr(ip, port) == [IP |-> ip, Port |-> port]
Requesters ==
    { UDPAddr(IPv4(1), 5001), UDPAddr(IPv4(3), 5003),
      UDPAddr(IPv6(10), 5002), UDPAddr(IPv6(3), 5004) }
\* a udp4 socket receives from IPv4 sources, a udp6 socket from IPv6 ones:
\* net.ListenUDP("udp6", ...) makes a socket for IPv6 only (IPV6_V6ONLY), to
\* which no datagram of an IPv4 source is delivered
RequestersOf(c) ==
    {a \in Requesters : a.IP.fam = (IF c = "udp6" THEN "ip6" ELSE "ip4")}

NoMessage == <<>>

VARIABLES
    cfg,          \* types.Config
    conns,        \* the sockets createUDPListeners has bound
    env,          \* what the surroundings do in this run
    ipBlacklist,  \* types.IPBlacklist
    requestStats, \* types.RequestStats
    caches,       \* cacheV4 and cacheV6
    now,          \* the clock
    ctxDone,      \* the context of main is cancelled
    closed,       \* the sockets closed by closeConnections
    mainPC,       \* where main is
    loops,        \* per socket: where ListenLoop is
    handlers,     \* the running HandleRequest goroutines (a bag)
    spawned,      \* history: the number of handlers dispatched
    lastMessage,  \* history: the last message a loop read, and what it did
    lastSet,      \* history: per cache, the last Set call
    call,         \* a function of the program called on its own: arguments and result
    allowed,      \* history: the discovery queries of sources not blocked, dispatched
    late,         \* history: per socket, the handlers dispatched after cancel()
    mutex,        \* the sync.RWMutex of requestStats and of the cache
    goroutines,   \* goroutines seen statement by statement inside the locked methods
    recorded,     \* history: the RecordRequest calls that returned, in their order
    stored        \* history: the Set calls that returned, in their order

vars == <<cfg, conns, env, ipBlacklist, requestStats, caches, now, ctxDone, closed, mainPC,
          loops, handlers, spawned, lastMessage, lastSet, call, allowed, late, mutex,
          goroutines,
          recorded, stored>>

\* the state of the goroutines below the calls of the locked methods
lockVars == <<mutex, goroutines, recorded, stored>>

\* no function is called on its own
NoCall == [fn |-> "none", in |-> <<>>, out |-> {}]

NoSet == [done |-> FALSE, info |-> NilInfo, at |-> ZeroTime]

\* a sync.RWMutex nobody holds: w is the goroutine holding it for writing
\* (0 for none), r the goroutines holding it for reading
Unlocked == [w |-> 0, r |-> {}]

\* the goroutines followed statement by statement
Goroutines == 1 .. MaxGoroutines

\* a goroutine that has not been started
NoGoroutine ==
    [role |-> "none", pc |-> "idle", ip |-> EmptyText,
     wrote |-> ZeroTime,      \* RecordRequest: the time it wrote
     load |-> 0,              \* RecordRequest: the count it read for the increment
     snap |-> <<>>,           \* GetStats: what it has read so far
     info |-> NilInfo,        \* Get: the c.Info of the test
     ts |-> ZeroTime,         \* Get: the c.Timestamp of the test
     tested |-> FALSE,        \* Get: it has read c.Timestamp
     got |-> NilInfo,         \* Get: what it returned
     fetched |-> NilInfo,     \* FetchInfo: what it returned
     seen |-> ZeroTime,       \* the c.Timestamp of a read outside the lock
     raced |-> FALSE]         \* that read ran beside the write of a Set

\* startListeners giving cacheV4 to the loops of both families
ListenerArgsOneCache(c) ==
    IF IsIPv6Listener(c)
    THEN [serverURL |-> cfg.ServerURLv6, proxyURL |-> cfg.ProxyURLv6, cache |-> "v4"]
    ELSE [serverURL |-> cfg.ServerURLv4, proxyURL |-> cfg.ProxyURLv4, cache |-> "v4"]

\* the arguments startListeners gives to the loop of socket c
ListenerArgs(c) ==
    IF IsIPv6Listener(c)
    THEN [serverURL |-> cfg.ServerURLv6, proxyURL |-> cfg.ProxyURLv6, cache |-> "v6"]
    ELSE [serverURL |-> cfg.ServerURLv4, proxyURL |-> cfg.ProxyURLv4, cache |-> "v4"]

\* the goroutine "go HandleRequest(conn, addr, serverURL, proxyURL, ...)"
NewHandler(c, addr) ==
    [conn |-> c, addr |-> addr,
     serverURL |-> ListenerArgs(c).serverURL, proxyURL |-> ListenerArgs(c).proxyURL,
     cache |-> ListenerArgs(c).cache,
     pc |-> "check", serverInfo |-> NilInfo, ipURL |-> EmptyURL,
     out |-> <<>>,            \* the datagrams it has put on the wire
     sent |-> <<>>,           \* history: the address URLs of its SendResponse calls
     records |-> 0,           \* history: its RecordRequest calls
     fresh |-> FALSE,         \* history: a Set within the TTL preceded its Get
     fetches |-> 0,           \* history: its FetchInfo calls
     fetchErr |-> FALSE,      \* history: its FetchInfo call returned an error
     sets |-> 0,              \* history: its cache.Set calls
     writes |-> 0,            \* history: its WriteToUDP calls
     failed |-> 0,            \* history: its WriteToUDP calls that returned an error
     lookups |-> 0]           \* history: its ResolveHostnameToIP calls

\* main before fetchInitialServerInfo, in deployment d
Start(d) ==
    /\ cfg = d.cfg
    /\ conns = {}
    /\ env = [binds |-> d.binds, upstream |-> d.upstream, writes |-> d.writes,
              payloads |-> d.payloads]
    /\ caches = [f \in {"v4", "v6"} |-> CacheNew(d.cacheDuration)]
    /\ ipBlacklist = BlacklistNew(BlacklistString)
    /\ requestStats = [LastRequestTime |-> ZeroTime, LastRequestIP |-> EmptyText,
                       TotalRequests |-> 0]
    /\ now = StartTime
    /\ ctxDone = FALSE
    /\ closed = {}
    /\ mainPC = "createUDPListeners"
    /\ loops = [c \in Conns |-> "idle"]
    /\ handlers = EmptyBag
    /\ spawned = 0
    /\ lastMessage = [message |-> NoMessage, dispatched |-> FALSE]
    /\ lastSet = [f \in {"v4", "v6"} |-> NoSet]
    /\ allowed = 0
    /\ late = [c \in Conns |-> 0]
    /\ mutex = [o \in {"stats", "cache"} |-> Unlocked]
    /\ goroutines = [p \in Goroutines |-> NoGoroutine]
    /\ recorded = <<>>
    /\ stored = <<>>

Init ==
    /\ \E d \in Deployments : Start(d)
    /\ call = NoCall

\* a cache write of a handler or of main, with its history
CacheSet(cs, ls, f, info, t) ==
    [caches |-> [cs EXCEPT ![f] = Set(cs[f], info, t)],
     lastSet |-> [ls EXCEPT ![f] = [done |-> TRUE, info |-> info, at |-> t]]]

(***************************************************************************)
(* main                                                                    *)
(***************************************************************************)
\* the sockets of a list
Range(seq) == {seq[i] : i \in 1..Len(seq)}

\* conns, err := createUDPListeners(cfg.BindIP); os.Exit(1) on an error
StartUDPListeners ==
    /\ mainPC = "createUDPListeners"
    /\ \E b \in env.binds :
         LET r == CreateUDPListeners(cfg.BindIP, b)
         IN  IF r.err
             THEN mainPC' = "exit" /\ conns' = conns
             ELSE mainPC' = "fetchInitial" /\ conns' = Range(r.conns)
    /\ UNCHANGED <<lockVars, allowed, late, call, cfg, env, ipBlacklist, requestStats, caches, now, ctxDone, closed,
                   loops, handlers, spawned, lastMessage, lastSet>>

\* fetchInitialServerInfo
FetchInitialServerInfo ==
    /\ mainPC = "fetchInitial"
    /\ \E a4 \in env.upstream, a6 \in env.upstream :
         LET r4 == FetchInfo(a4)
             r6 == FetchInfo(a6)
             s0 == [caches |-> caches, lastSet |-> lastSet]
             s1 == IF r4.err THEN s0
                   ELSE CacheSet(s0.caches, s0.lastSet, "v4", r4.info, now)
             s2 == IF cfg.ServerURLv6 # cfg.ServerURLv4
                   THEN IF r6.err THEN s1
                        ELSE CacheSet(s1.caches, s1.lastSet, "v6", r6.info, now)
                   ELSE IF ~r4.info.nil
                        THEN CacheSet(s1.caches, s1.lastSet, "v6", r4.info, now)
                        ELSE s1
         IN  /\ caches' = s2.caches
             /\ lastSet' = s2.lastSet
    /\ mainPC' = "startListeners"
    /\ UNCHANGED <<lockVars, allowed, late, call, cfg, conns, env, ipBlacklist, requestStats, now, ctxDone, closed, loops,
                   handlers, spawned, lastMessage>>

\* startListeners: one ListenLoop goroutine per socket
StartListeners ==
    /\ mainPC = "startListeners"
    /\ loops' = [c \in Conns |-> IF c \in conns THEN "select" ELSE "idle"]
    /\ mainPC' = "running"
    /\ UNCHANGED <<lockVars, allowed, late, call, cfg, conns, env, ipBlacklist, requestStats, caches, now, ctxDone, closed,
                   handlers, spawned, lastMessage, lastSet>>

\* gracefulShutdown: cancel()
Cancel ==
    /\ mainPC = "running"
    /\ ctxDone' = TRUE
    /\ mainPC' = "cancelled"
    /\ UNCHANGED <<lockVars, allowed, late, call, cfg, conns, env, ipBlacklist, requestStats, caches, now, closed, loops,
                   handlers, spawned, lastMessage, lastSet>>

\* gracefulShutdown: closeConnections(conns)
CloseConnections ==
    /\ mainPC = "cancelled"
    /\ closed' = conns
    /\ mainPC' = "closed"
    /\ UNCHANGED <<lockVars, allowed, late, call, cfg, conns, env, ipBlacklist, requestStats, caches, now, ctxDone, loops,
                   handlers, spawned, lastMessage, lastSet>>

\* gracefulShutdown: time.Sleep(100 * time.Millisecond), the grace period
Sleep ==
    /\ mainPC = "closed"
    /\ mainPC' = "slept"
    /\ UNCHANGED <<lockVars, allowed, late, call, cfg, conns, env, ipBlacklist, requestStats, caches, now, ctxDone,
                   closed, loops, handlers, spawned, lastMessage, lastSet>>

\* main: os.Exit(0) ends the process with its goroutines
Exit ==
    /\ mainPC = "slept"
    /\ mainPC' = "exit"
    /\ handlers' = EmptyBag
    /\ loops' = [c \in Conns |-> "idle"]
    /\ UNCHANGED <<lockVars, allowed, late, call, cfg, conns, env, ipBlacklist, requestStats, caches, now, ctxDone,
                   closed, spawned, lastMessage, lastSet>>

\* Tick with a timer that fetches the identity again for both caches
TickRefreshes ==
    /\ now < MaxTime
    /\ now' = now + 1
    /\ \E answer \in env.upstream :
         LET r == FetchInfo(answer)
             s1 == CacheSet(caches, lastSet, "v4", r.info, now + 1)
             s2 == CacheSet(s1.caches, s1.lastSet, "v6", r.info, now + 1)
         IN  IF r.err
             THEN UNCHANGED <<caches, lastSet>>
             ELSE caches' = s2.caches /\ lastSet' = s2.lastSet
    /\ UNCHANGED <<lockVars, allowed, late, call, cfg, conns, env, ipBlacklist, requestStats, ctxDone, closed, mainPC,
                   loops, handlers, spawned, lastMessage>>

\* time passes
Tick ==
    /\ now < MaxTime
    /\ now' = now + 1
    /\ UNCHANGED <<lockVars, allowed, late, call, cfg, conns, env, ipBlacklist, requestStats, caches, ctxDone, closed, mainPC,
                   loops, handlers, spawned, lastMessage, lastSet>>

(***************************************************************************)
(* discovery.ListenLoop, one per socket                                    *)
(***************************************************************************)
\* select on ctx.Done() at the top of the loop: return, or set the read
\* deadline and wait in conn.ReadFromUDP
Select == IF ctxDone THEN "returned" ELSE "read"

\* the first pass through the top of the loop
LoopSelect(c) ==
    /\ loops[c] = "select"
    /\ loops' = [loops EXCEPT ![c] = Select]
    /\ UNCHANGED <<lockVars, allowed, late, call, cfg, conns, env, ipBlacklist, requestStats, caches, now, ctxDone, closed,
                   mainPC, handlers, spawned, lastMessage, lastSet>>

\* the test of the message with a comparison that minds the case
IsDiscoveryRequestExact(message) == message = DiscoveryQuery

\* the test of the message
IsDiscoveryRequest(message) == EqualFold(message, DiscoveryQuery)

\* LoopReceive going back to the read without the select on ctx.Done()
LoopReceiveKeepsReading(c) ==
    /\ loops[c] = "read"
    /\ c \notin closed
    /\ \E addr \in RequestersOf(c), message \in env.payloads :
         IF IsDiscoveryRequest(message)
         THEN /\ spawned < MaxHandlers
              /\ handlers' = handlers (+) SetToBag({NewHandler(c, addr)})
              /\ spawned' = spawned + 1
              /\ lastMessage' = [message |-> message, dispatched |-> TRUE]
              /\ allowed' = IF IsBlocked(ipBlacklist, IPString(addr.IP))
                            THEN allowed
                            ELSE allowed + 1
              /\ late' = IF ctxDone THEN [late EXCEPT ![c] = @ + 1] ELSE late
         ELSE /\ lastMessage' = [message |-> message, dispatched |-> FALSE]
              /\ UNCHANGED <<handlers, spawned, allowed, late>>
    /\ loops' = [loops EXCEPT ![c] = "read"]
    /\ UNCHANGED <<lockVars, call, cfg, conns, env, ipBlacklist, requestStats, caches, now, ctxDone, closed,
                   mainPC, lastSet>>

\* conn.ReadFromUDP(buffer) returns a datagram; the message is tested, a
\* handler is dispatched for a discovery request, and the loop is at its top
LoopReceive(c) ==
    /\ loops[c] = "read"
    /\ c \notin closed
    /\ \E addr \in RequestersOf(c), message \in env.payloads :
         IF IsDiscoveryRequest(message)
         THEN /\ spawned < MaxHandlers
              /\ handlers' = handlers (+) SetToBag({NewHandler(c, addr)})
              /\ spawned' = spawned + 1
              /\ lastMessage' = [message |-> message, dispatched |-> TRUE]
              /\ allowed' = IF IsBlocked(ipBlacklist, IPString(addr.IP))
                            THEN allowed
                            ELSE allowed + 1
              /\ late' = IF ctxDone THEN [late EXCEPT ![c] = @ + 1] ELSE late
         ELSE /\ lastMessage' = [message |-> message, dispatched |-> FALSE]
              /\ UNCHANGED <<handlers, spawned, allowed, late>>
    /\ loops' = [loops EXCEPT ![c] = Select]
    /\ UNCHANGED <<lockVars, call, cfg, conns, env, ipBlacklist, requestStats, caches, now, ctxDone, closed,
                   mainPC, lastSet>>

\* LoopReadTimeout going back to the read without the select on ctx.Done()
LoopReadTimeoutBlind(c) ==
    /\ loops[c] = "read"
    /\ c \notin closed
    /\ loops' = [loops EXCEPT ![c] = "read"]
    /\ UNCHANGED <<lockVars, allowed, late, call, cfg, conns, env, ipBlacklist, requestStats, caches, now, ctxDone, closed,
                   mainPC, handlers, spawned, lastMessage, lastSet>>

\* conn.ReadFromUDP(buffer) returns a timeout, or another error while the
\* context is not cancelled: continue
LoopReadTimeout(c) ==
    /\ loops[c] = "read"
    /\ c \notin closed
    /\ loops' = [loops EXCEPT ![c] = Select]
    /\ UNCHANGED <<lockVars, allowed, late, call, cfg, conns, env, ipBlacklist, requestStats, caches, now, ctxDone, closed,
                   mainPC, handlers, spawned, lastMessage, lastSet>>

\* conn.ReadFromUDP(buffer) fails on the closed socket
LoopReadClosed(c) ==
    /\ loops[c] = "read"
    /\ c \in closed
    /\ loops' = [loops EXCEPT ![c] = Select]
    /\ UNCHANGED <<lockVars, allowed, late, call, cfg, conns, env, ipBlacklist, requestStats, caches, now, ctxDone, closed,
                   mainPC, handlers, spawned, lastMessage, lastSet>>

(***************************************************************************)
(* discovery.HandleRequest, one goroutine per accepted query               *)
(***************************************************************************)
\* SendResponse answering to the discovery port of the requester instead of
\* the source port of its query
SendResponseToDiscoveryPort(h, addressURL, ok) ==
    LET response == JellyfinDiscoveryResponse(addressURL, h.serverInfo)
        datagram == [to |-> UDPAddr(h.addr.IP, 7359), via |-> h.conn,
                     payload |-> Marshal(response)]
    IN  [h EXCEPT !.writes = @ + 1,
                  !.sent = Append(@, addressURL),
                  !.failed = IF ok THEN @ ELSE @ + 1,
                  !.out = IF ok THEN Append(@, datagram) ELSE @]

\* discovery.SendResponse: the datagram goes out unless WriteToUDP fails
SendResponse(h, addressURL, ok) ==
    LET response == JellyfinDiscoveryResponse(addressURL, h.serverInfo)
        datagram == [to |-> h.addr, via |-> h.conn, payload |-> Marshal(response)]
    IN  [h EXCEPT !.writes = @ + 1,
                  !.sent = Append(@, addressURL),
                  !.failed = IF ok THEN @ ELSE @ + 1,
                  !.out = IF ok THEN Append(@, datagram) ELSE @]

\* the address URL of the first response, the advertise URL left aside
AddressURLUpstream(h) == h.serverURL

\* the address URL of the first response
AddressURL(h) == IF h.proxyURL # EmptyURL THEN h.proxyURL ELSE h.serverURL

\* the test for the dual response made on the address URL of the response
DualResponseByAddress(h) == IsHostname(AddressURL(h))

\* the test for the dual response
DualResponse(h) == h.proxyURL # EmptyURL /\ IsHostname(h.proxyURL)

\* a set within the TTL precedes time t
Fresh(ls, duration, t) == ls.done /\ (duration = 0 \/ t - ls.at < duration)

\* handler h takes a step and becomes g
Step(h, g) == handlers' = (handlers (-) SetToBag({h})) (+) SetToBag({g})

\* HandleCheck with the request recorded before the blacklist is consulted
HandleCheckRecordsFirst(h) ==
    LET clientIP == IPString(h.addr.IP)
    IN  /\ h.pc = "check"
        /\ requestStats' = RecordRequest(requestStats, clientIP, now)
        /\ IF IsBlocked(ipBlacklist, clientIP)
           THEN Step(h, [h EXCEPT !.pc = "done", !.records = @ + 1])
           ELSE Step(h, [h EXCEPT !.pc = "get", !.records = @ + 1])
        /\ UNCHANGED <<lockVars, allowed, late, call, cfg, conns, env, ipBlacklist, caches, now, ctxDone, closed, mainPC, loops,
                       spawned, lastMessage, lastSet>>

\* HandleCheck with the call of stats.RecordRequest left out
HandleCheckNeverRecords(h) ==
    LET clientIP == IPString(h.addr.IP)
    IN  /\ h.pc = "check"
        /\ IF IsBlocked(ipBlacklist, clientIP)
           THEN Step(h, [h EXCEPT !.pc = "done"])
           ELSE Step(h, [h EXCEPT !.pc = "get"])
        /\ UNCHANGED <<lockVars, allowed, late, call, cfg, conns, env, ipBlacklist, requestStats, caches, now, ctxDone, closed,
                       mainPC, loops, spawned, lastMessage, lastSet>>

\* HandleCheck sending a blocked source on to the fetch of the identity
HandleCheckFetchesForBlocked(h) ==
    LET clientIP == IPString(h.addr.IP)
    IN  /\ h.pc = "check"
        /\ IF IsBlocked(ipBlacklist, clientIP)
           THEN /\ Step(h, [h EXCEPT !.pc = "fetch"])
                /\ requestStats' = requestStats
           ELSE /\ Step(h, [h EXCEPT !.pc = "get", !.records = @ + 1])
                /\ requestStats' = RecordRequest(requestStats, clientIP, now)
        /\ UNCHANGED <<lockVars, allowed, late, call, cfg, conns, env, ipBlacklist, caches, now, ctxDone, closed, mainPC, loops,
                       spawned, lastMessage, lastSet>>

\* HandleCheck refusing a request once the statistics count a request
HandleCheckLimitsByStats(h) ==
    LET clientIP == IPString(h.addr.IP)
    IN  /\ h.pc = "check"
        /\ IF IsBlocked(ipBlacklist, clientIP) \/ requestStats.TotalRequests >= 1
           THEN /\ Step(h, [h EXCEPT !.pc = "done"])
                /\ requestStats' = requestStats
           ELSE /\ Step(h, [h EXCEPT !.pc = "get", !.records = @ + 1])
                /\ requestStats' = RecordRequest(requestStats, clientIP, now)
        /\ UNCHANGED <<lockVars, allowed, late, call, cfg, conns, env, ipBlacklist, caches, now, ctxDone, closed, mainPC, loops,
                       spawned, lastMessage, lastSet>>

\* blacklist.IsBlocked, then stats.RecordRequest
HandleCheck(h) ==
    LET clientIP == IPString(h.addr.IP)
    IN  /\ h.pc = "check"
        /\ IF IsBlocked(ipBlacklist, clientIP)
           THEN /\ Step(h, [h EXCEPT !.pc = "done"])
                /\ requestStats' = requestStats
           ELSE /\ Step(h, [h EXCEPT !.pc = "get", !.records = @ + 1])
                /\ requestStats' = RecordRequest(requestStats, clientIP, now)
        /\ UNCHANGED <<lockVars, allowed, late, call, cfg, conns, env, ipBlacklist, caches, now, ctxDone, closed, mainPC, loops,
                       spawned, lastMessage, lastSet>>

\* HandleGet with the cached identity ignored: every request fetches
HandleGetAlwaysFetches(h) ==
    /\ h.pc = "get"
    /\ Step(h, [h EXCEPT !.fresh = Fresh(lastSet[h.cache], caches[h.cache].Duration, now),
                         !.pc = "fetch"])
    /\ UNCHANGED <<lockVars, allowed, late, call, cfg, conns, env, ipBlacklist, requestStats, caches, now, ctxDone, closed,
                   mainPC, loops, spawned, lastMessage, lastSet>>

\* cache.Get
HandleGet(h) ==
    LET serverInfo == Get(caches[h.cache], now)
    IN  /\ h.pc = "get"
        /\ Step(h, [h EXCEPT !.serverInfo = serverInfo,
                             !.fresh = Fresh(lastSet[h.cache], caches[h.cache].Duration, now),
                             !.pc = IF serverInfo.nil THEN "fetch" ELSE "send"])
        /\ UNCHANGED <<lockVars, allowed, late, call, cfg, conns, env, ipBlacklist, requestStats, caches, now, ctxDone, closed,
                       mainPC, loops, spawned, lastMessage, lastSet>>

\* HandleFetch going on to cache.Set and the response after a failed fetch
HandleFetchIgnoresError(h) ==
    /\ h.pc = "fetch"
    /\ \E answer \in env.upstream :
         LET r == FetchInfo(answer)
         IN  Step(h, [h EXCEPT !.fetches = @ + 1, !.fetchErr = r.err, !.pc = "set",
                               !.serverInfo = r.info])
    /\ UNCHANGED <<lockVars, allowed, late, call, cfg, conns, env, ipBlacklist, requestStats, caches, now, ctxDone, closed,
                   mainPC, loops, spawned, lastMessage, lastSet>>

\* HandleFetch going on to the response without cache.Set
HandleFetchSkipsSet(h) ==
    /\ h.pc = "fetch"
    /\ \E answer \in env.upstream :
         LET r == FetchInfo(answer)
         IN  IF r.err
             THEN Step(h, [h EXCEPT !.fetches = @ + 1, !.fetchErr = TRUE,
                                    !.pc = "done"])
             ELSE Step(h, [h EXCEPT !.fetches = @ + 1, !.pc = "send",
                                    !.serverInfo = r.info])
    /\ UNCHANGED <<lockVars, allowed, late, call, cfg, conns, env, ipBlacklist, requestStats, caches, now, ctxDone, closed,
                   mainPC, loops, spawned, lastMessage, lastSet>>

\* server.FetchInfo(serverURL) after a miss
HandleFetch(h) ==
    /\ h.pc = "fetch"
    /\ \E answer \in env.upstream :
         LET r == FetchInfo(answer)
         IN  IF r.err
             THEN Step(h, [h EXCEPT !.fetches = @ + 1, !.fetchErr = TRUE,
                                    !.pc = "done"])
             ELSE Step(h, [h EXCEPT !.fetches = @ + 1, !.pc = "set",
                                    !.serverInfo = r.info])
    /\ UNCHANGED <<lockVars, allowed, late, call, cfg, conns, env, ipBlacklist, requestStats, caches, now, ctxDone, closed,
                   mainPC, loops, spawned, lastMessage, lastSet>>

\* HandleSet with a cache.Set that never gets the lock of the cache
HandleSetNeverReturns(h) ==
    /\ h.pc = "set"
    /\ FALSE
    /\ UNCHANGED vars

\* cache.Set(serverInfo)
HandleSet(h) ==
    LET s == CacheSet(caches, lastSet, h.cache, h.serverInfo, now)
    IN  /\ h.pc = "set"
        /\ caches' = s.caches
        /\ lastSet' = s.lastSet
        /\ Step(h, [h EXCEPT !.sets = @ + 1, !.pc = "send"])
        /\ UNCHANGED <<lockVars, allowed, late, call, cfg, conns, env, ipBlacklist, requestStats, now, ctxDone, closed, mainPC,
                       loops, spawned, lastMessage>>

\* the results conn.WriteToUDP may have: an error on a closed socket
WriteResults(h) == IF h.conn \in closed THEN {FALSE} ELSE env.writes

\* HandleSend going to the resolution before the hostname form is sent
HandleSendResolvesFirst(h) ==
    /\ h.pc = "send"
    /\ \E ok \in WriteResults(h) :
         /\ IF DualResponse(h)
            THEN Step(h, [h EXCEPT !.pc = "resolve"])
            ELSE Step(h, [SendResponse(h, AddressURL(h), ok) EXCEPT !.pc = "done"])
    /\ UNCHANGED <<lockVars, allowed, late, call, cfg, conns, env, ipBlacklist, requestStats, caches, now, ctxDone, closed,
                   mainPC, loops, spawned, lastMessage, lastSet>>

\* HandleSend with the handler returning when its send has failed
HandleSendEndsOnError(h) ==
    /\ h.pc = "send"
    /\ \E ok \in WriteResults(h) :
         /\ IF DualResponse(h) /\ ok
            THEN Step(h, [SendResponse(h, AddressURL(h), ok) EXCEPT !.pc = "resolve"])
            ELSE Step(h, [SendResponse(h, AddressURL(h), ok) EXCEPT !.pc = "done"])
    /\ UNCHANGED <<lockVars, allowed, late, call, cfg, conns, env, ipBlacklist, requestStats, caches, now, ctxDone, closed,
                   mainPC, loops, spawned, lastMessage, lastSet>>

\* the first (or only) SendResponse
HandleSend(h) ==
    /\ h.pc = "send"
    /\ \E ok \in WriteResults(h) :
         /\ IF DualResponse(h)
            THEN Step(h, [SendResponse(h, AddressURL(h), ok) EXCEPT !.pc = "resolve"])
            ELSE Step(h, [SendResponse(h, AddressURL(h), ok) EXCEPT !.pc = "done"])
    /\ UNCHANGED <<lockVars, allowed, late, call, cfg, conns, env, ipBlacklist, requestStats, caches, now, ctxDone, closed,
                   mainPC, loops, spawned, lastMessage, lastSet>>

\* HandleResolve returning after the resolution, without the second response
HandleResolveOnly(h) ==
    /\ h.pc = "resolve"
    /\ \E answer \in LookupIP(SplitHost(h.proxyURL)) :
         LET r == ResolveHostnameToIP(h.proxyURL, answer)
         IN  Step(h, [h EXCEPT !.lookups = @ + 1, !.pc = "done", !.ipURL = r.url])
    /\ UNCHANGED <<lockVars, allowed, late, call, cfg, conns, env, ipBlacklist, requestStats, caches, now, ctxDone, closed,
                   mainPC, loops, spawned, lastMessage, lastSet>>

\* HandleResolve going on to the second response after a failed resolution
HandleResolveSendsAnyway(h) ==
    /\ h.pc = "resolve"
    /\ \E answer \in LookupIP(SplitHost(h.proxyURL)) :
         LET r == ResolveHostnameToIP(h.proxyURL, answer)
         IN  Step(h, [h EXCEPT !.lookups = @ + 1, !.pc = "send2", !.ipURL = r.url])
    /\ UNCHANGED <<lockVars, allowed, late, call, cfg, conns, env, ipBlacklist, requestStats, caches, now, ctxDone, closed,
                   mainPC, loops, spawned, lastMessage, lastSet>>

\* server.ResolveHostnameToIP(proxyURL)
HandleResolve(h) ==
    /\ h.pc = "resolve"
    /\ \E answer \in LookupIP(SplitHost(h.proxyURL)) :
         LET r == ResolveHostnameToIP(h.proxyURL, answer)
         IN  IF r.err
             THEN Step(h, [h EXCEPT !.lookups = @ + 1, !.pc = "done"])
             ELSE Step(h, [h EXCEPT !.lookups = @ + 1, !.pc = "send2",
                                    !.ipURL = r.url])
    /\ UNCHANGED <<lockVars, allowed, late, call, cfg, conns, env, ipBlacklist, requestStats, caches, now, ctxDone, closed,
                   mainPC, loops, spawned, lastMessage, lastSet>>

\* HandleSend2 taking the identity of its response from the cache anew
HandleSend2ReadsCache(h) ==
    /\ h.pc = "send2"
    /\ \E ok \in WriteResults(h) :
         /\ Step(h, [SendResponse([h EXCEPT !.serverInfo = caches[h.cache].Info], h.ipURL, ok)
                         EXCEPT !.pc = "done"])
    /\ UNCHANGED <<lockVars, allowed, late, call, cfg, conns, env, ipBlacklist, requestStats, caches, now, ctxDone, closed,
                   mainPC, loops, spawned, lastMessage, lastSet>>

\* the second SendResponse, with the resolved URL
HandleSend2(h) ==
    /\ h.pc = "send2"
    /\ \E ok \in WriteResults(h) :
         /\ Step(h, [SendResponse(h, h.ipURL, ok) EXCEPT !.pc = "done"])
    /\ UNCHANGED <<lockVars, allowed, late, call, cfg, conns, env, ipBlacklist, requestStats, caches, now, ctxDone, closed,
                   mainPC, loops, spawned, lastMessage, lastSet>>

\* the function returns and the goroutine ends
HandleReturn(h) ==
    /\ h.pc = "done"
    /\ handlers' = handlers (-) SetToBag({h})
    /\ UNCHANGED <<lockVars, allowed, late, call, cfg, conns, env, ipBlacklist, requestStats, caches, now, ctxDone, closed,
                   mainPC, loops, spawned, lastMessage, lastSet>>

\* a step of HandleRequest
HandleRequest(h) ==
    \/ HandleCheck(h)
    \/ HandleGet(h)
    \/ HandleFetch(h)
    \/ HandleSet(h)
    \/ HandleSend(h)
    \/ HandleResolve(h)
    \/ HandleSend2(h)
    \/ HandleReturn(h)

\* the proxy in service
Next ==
    \/ StartUDPListeners
    \/ FetchInitialServerInfo
    \/ StartListeners
    \/ Tick
    \/ \E c \in Conns : LoopSelect(c)
    \/ \E c \in Conns : LoopReceive(c)
    \/ \E h \in BagToSet(handlers) : HandleCheck(h)
    \/ \E h \in BagToSet(handlers) : HandleGet(h)
    \/ \E h \in BagToSet(handlers) : HandleFetch(h)
    \/ \E h \in BagToSet(handlers) : HandleSet(h)
    \/ \E h \in BagToSet(handlers) : HandleSend(h)
    \/ \E h \in BagToSet(handlers) : HandleResolve(h)
    \/ \E h \in BagToSet(handlers) : HandleSend2(h)
    \/ \E h \in BagToSet(handlers) : HandleReturn(h)

Spec == Init /\ [][Next]_vars

\* the goroutines of the handlers are scheduled, and the calls they make
\* return: a handler that can take a step takes one
HandlersRun == \E h \in BagToSet(handlers) : HandleRequest(h)

\* the deployments in which the end of the handlers is followed: those with
\* a hostname or nothing to advertise, with an upstream that fails and with
\* sends that fail
InitFair ==
    /\ \E d \in {e \in Deployments : e.cfg # ConfigLiteral} : Start(d)
    /\ call = NoCall

SpecFair == InitFair /\ [][Next]_vars /\ WF_vars(HandlersRun)

\* a deployment with dual responses whose upstream changes its identity
\* while the proxy runs: the advertise URL is a name, the cache lives one
\* unit of the clock
DualDeployment ==
    [cfg |-> ConfigName, cacheDuration |-> 1,
     binds |-> {BindOutcome(TRUE, FALSE, TRUE, TRUE)},
     upstream |-> {HomeMedia, HTTPAnswer("ok", StatusOK, "json", "def456", "Den Media")},
     writes |-> {TRUE}, payloads |-> {DiscoveryQuery}]
InitDual == Start(DualDeployment) /\ call = NoCall
SpecDual == InitDual /\ [][Next]_vars

\* the proxy in service and in shutdown: the signal arrives at any time
NextShutdown ==
    \/ Next
    \/ Cancel
    \/ CloseConnections
    \/ Sleep
    \/ Exit
    \/ \E c \in Conns : LoopReadTimeout(c)
    \/ \E c \in Conns : LoopReadClosed(c)

SpecShutdown == Init /\ [][NextShutdown]_vars

\* what the goroutine of ListenLoop does by itself: the select at the top,
\* and the return of ReadFromUDP at its deadline of one second or with the
\* error of a closed socket; that a datagram arrives is up to the requesters
LoopReturns(c) == LoopSelect(c) \/ LoopReadTimeout(c) \/ LoopReadClosed(c)

\* the shutdown with loops that are scheduled; main may take any time
SpecShutdownFair == SpecShutdown /\ \A c \in Conns : WF_vars(LoopReturns(c))

(***************************************************************************)
(* The functions of the packages, called on their own with arguments of    *)
(* small sets.                                                             *)
(***************************************************************************)
\* the sequences over S of a length up to n
SeqsUpTo(S, n) == UNION {[1..k -> S] : k \in 0..n}

\* the entries a BLACKLIST string is made of, and the length of the string
MaxTokens == 3
BlacklistTokens ==
    { IPText(IPv4(1), "canon"), IPText(IPv6(9), "expanded"),
      CIDRText(IPv6(9), AddrBits - 2), BadText, BadCIDRText, EmptyText }
BlacklistStrings == SeqsUpTo(BlacklistTokens, MaxTokens)
\* the addresses of clients
ClientIPs == {IPv4(1), IPv4(3), IPv6(9), IPv6(10), IPv6(12)}

\* the calls with their arguments
CallsOfNew == {[fn |-> "New", in |-> [blacklistStr |-> b], out |-> {}] : b \in BlacklistStrings}
CallsOfIsBlocked ==
    {[fn |-> "IsBlocked", in |-> [blacklistStr |-> b, ip |-> ip], out |-> {}] :
        b \in BlacklistStrings, ip \in ClientIPs}
\* the URL texts: hosts that are names, IPv4 literals and IPv6 literals in
\* brackets, with and without a port and a path; the empty string; a text
\* without a host; a text url.Parse rejects
URLTexts ==
    { URLOf(scheme, host, port, path) :
        scheme \in {"http", "https"},
        host \in {NameHost("jellyfin.local"), IP4Host(IPv4(3)), IP6Host(IPv6(3))},
        port \in {"", "8096"}, path \in {"", "/jellyfin"} }
    \cup {EmptyURL, PathURL("jellyfin.local"), BadURL}
CallsOfIsHostname == {[fn |-> "IsHostname", in |-> [urlStr |-> u], out |-> {}] : u \in URLTexts}
CallsOfResolveHostnameToIP ==
    {[fn |-> "ResolveHostnameToIP", in |-> [urlStr |-> u, answer |-> a], out |-> {}] :
        u \in URLTexts, a \in LookupResults}
CallsOfFetchInfo ==
    {[fn |-> "FetchInfo", in |-> [answer |-> a], out |-> {}] : a \in UpstreamAnswers}
CallsOfCreateUDPListeners ==
    {[fn |-> "createUDPListeners", in |-> [bindIP |-> ip, binds |-> b], out |-> {}] :
        ip \in {"0.0.0.0", "192.168.1.5"}, b \in BindOutcomes}
(***************************************************************************)
(* cache.GetDuration: CACHE_DURATION, strconv.Atoi and time.Duration.  The *)
(* words are narrower than the 64 bits of int and time.Duration, and the   *)
(* hour has fewer units than its 3.6e12 nanoseconds, so that the values    *)
(* are in reach: a product of hours and units wraps around as in Go.       *)
(***************************************************************************)
DurationBits == 8
MinInt == 0 - 2^(DurationBits - 1)
MaxInt == 2^(DurationBits - 1) - 1
\* the value of a signed word after an overflow
WrapInt(x) == ((x - MinInt) % 2^DurationBits) + MinInt

\* time.Hour, in units of time.Duration
Hour == 4
DefaultHours == 24

DigitChars == <<"0", "1", "2", "3", "4", "5", "6", "7", "8", "9">>
IsDigit(c) == \E i \in 1..Len(DigitChars) : DigitChars[i] = c
DigitValue(c) == (CHOOSE i \in 1..Len(DigitChars) : DigitChars[i] = c) - 1
RECURSIVE DecimalValue(_)
DecimalValue(digits) ==
    IF digits = <<>> THEN 0
    ELSE DecimalValue(SubSeq(digits, 1, Len(digits) - 1)) * 10 + DigitValue(digits[Len(digits)])

\* strconv.Atoi: an optional sign and at least one decimal digit; a syntax
\* error for every other text, a range error for a value outside int
Atoi(text) ==
    LET signed == text # <<>> /\ text[1] \in {"+", "-"}
        digits == IF signed THEN Tail(text) ELSE text
        magnitude == DecimalValue(digits)
        value == IF signed /\ text[1] = "-" THEN 0 - magnitude ELSE magnitude
    IN  IF digits = <<>> \/ \E i \in 1..Len(digits) : ~IsDigit(digits[i])
        THEN [err |-> TRUE, value |-> 0]
        ELSE IF value < MinInt \/ value > MaxInt
        THEN [err |-> TRUE, value |-> IF value < MinInt THEN MinInt ELSE MaxInt]
        ELSE [err |-> FALSE, value |-> value]

\* cache.GetDuration, given the value of CACHE_DURATION (empty when unset)
GetDuration(cacheDurationStr) ==
    IF cacheDurationStr = <<>> THEN DefaultHours * Hour
    ELSE IF cacheDurationStr = <<"0">> THEN 0
    ELSE LET r == Atoi(cacheDurationStr)
         IN  IF r.err THEN DefaultHours * Hour
             ELSE WrapInt(r.value * Hour)

\* the values of CACHE_DURATION: the texts of these characters up to a length
MaxDigits == 3
DurationChars == {"-", "+", "0", "1", "2", "3", "9", "h"}
CallsOfGetDuration ==
    {[fn |-> "GetDuration", in |-> [cacheDurationStr |-> t], out |-> {}] :
        t \in SeqsUpTo(DurationChars, MaxDigits)}

Calls ==
    CallsOfNew \cup CallsOfIsBlocked \cup CallsOfIsHostname \cup CallsOfResolveHostnameToIP
    \cup CallsOfFetchInfo \cup CallsOfCreateUDPListeners \cup CallsOfGetDuration

\* the call returns result r
Return(r) == call' = [call EXCEPT !.out = {r}]
Returned == call.out # {}
Result == CHOOSE r \in call.out : TRUE

\* blacklist.New(blacklistStr)
CallNew ==
    /\ call.fn = "New" /\ ~Returned
    /\ Return(BlacklistNew(call.in.blacklistStr))
    /\ UNCHANGED <<lockVars, allowed, late, cfg, conns, env, ipBlacklist, requestStats, caches, now, ctxDone, closed,
                   mainPC, loops, handlers, spawned, lastMessage, lastSet>>

\* blacklist.New(blacklistStr).IsBlocked(addr.IP.String())
CallIsBlocked ==
    /\ call.fn = "IsBlocked" /\ ~Returned
    /\ Return(IsBlocked(BlacklistNew(call.in.blacklistStr), IPString(call.in.ip)))
    /\ UNCHANGED <<lockVars, allowed, late, cfg, conns, env, ipBlacklist, requestStats, caches, now, ctxDone, closed,
                   mainPC, loops, handlers, spawned, lastMessage, lastSet>>

\* server.IsHostname(urlStr)
CallIsHostname ==
    /\ call.fn = "IsHostname" /\ ~Returned
    /\ Return(IsHostname(call.in.urlStr))
    /\ UNCHANGED <<lockVars, allowed, late, cfg, conns, env, ipBlacklist, requestStats, caches, now, ctxDone, closed,
                   mainPC, loops, handlers, spawned, lastMessage, lastSet>>

\* server.ResolveHostnameToIP(urlStr), net.LookupIP giving an answer that
\* the host admits
CallResolveHostnameToIP ==
    /\ call.fn = "ResolveHostnameToIP" /\ ~Returned
    /\ call.in.answer \in LookupIP(SplitHost(call.in.urlStr))
    /\ Return(ResolveHostnameToIP(call.in.urlStr, call.in.answer))
    /\ UNCHANGED <<lockVars, allowed, late, cfg, conns, env, ipBlacklist, requestStats, caches, now, ctxDone, closed,
                   mainPC, loops, handlers, spawned, lastMessage, lastSet>>

\* server.FetchInfo(serverURL), the upstream giving the answer
CallFetchInfo ==
    /\ call.fn = "FetchInfo" /\ ~Returned
    /\ Return(FetchInfo(call.in.answer))
    /\ UNCHANGED <<lockVars, allowed, late, cfg, conns, env, ipBlacklist, requestStats, caches, now, ctxDone, closed,
                   mainPC, loops, handlers, spawned, lastMessage, lastSet>>

\* main.createUDPListeners(bindIP)
CallCreateUDPListeners ==
    /\ call.fn = "createUDPListeners" /\ ~Returned
    /\ Return(CreateUDPListeners(call.in.bindIP, call.in.binds))
    /\ UNCHANGED <<lockVars, allowed, late, cfg, conns, env, ipBlacklist, requestStats, caches, now, ctxDone, closed,
                   mainPC, loops, handlers, spawned, lastMessage, lastSet>>

\* cache.GetDuration()
CallGetDuration ==
    /\ call.fn = "GetDuration" /\ ~Returned
    /\ Return(GetDuration(call.in.cacheDurationStr))
    /\ UNCHANGED <<lockVars, allowed, late, cfg, conns, env, ipBlacklist, requestStats, caches, now, ctxDone, closed,
                   mainPC, loops, handlers, spawned, lastMessage, lastSet>>

InitCalls ==
    /\ Start(CHOOSE d \in Deployments : d.cfg = ConfigEmpty)
    /\ call \in Calls

NextCalls ==
    \/ CallNew
    \/ CallIsBlocked
    \/ CallIsHostname
    \/ CallResolveHostnameToIP
    \/ CallFetchInfo
    \/ CallCreateUDPListeners
    \/ CallGetDuration

SpecCalls == InitCalls /\ [][NextCalls]_vars

(***************************************************************************)
(* The locked methods of types.RequestStats and types.ServerInfoCache,     *)
(* statement by statement: the goroutines of HandleRequest and of the      *)
(* dashboard handler run beside each other on requestStats and on the      *)
(* IPv4 cache.                                                             *)
(***************************************************************************)
\* everything a step inside a locked method leaves alone
serviceVars == <<cfg, conns, env, ipBlacklist, now, ctxDone, closed, mainPC, loops, handlers,
                 spawned, lastMessage, lastSet, call, allowed, late>>

\* RWMutex.RLock that does not wait for the writer
CanRLockBesideWriter(m) == TRUE

\* RWMutex.RLock returns: no goroutine holds the mutex for writing
CanRLock(m) == m.w = 0

\* RWMutex.Lock that does not wait for the readers
CanLockBesideReaders(m) == m.w = 0

\* RWMutex.Lock returns: no goroutine holds the mutex
CanLock(m) == m.w = 0 /\ m.r = {}

Lock(o, p) == mutex' = [mutex EXCEPT ![o].w = p]
RLock(o, p) == mutex' = [mutex EXCEPT ![o].r = @ \cup {p}]
\* the deferred Unlock and RUnlock
Unlock(o, p) == mutex' = [mutex EXCEPT ![o].w = 0]
RUnlock(o, p) == mutex' = [mutex EXCEPT ![o].r = @ \ {p}]

\* goroutine p goes on as g
Goto(p, g) == goroutines' = [goroutines EXCEPT ![p] = g]
At(p, pc) == goroutines[p].pc = pc

\* the cache of the goroutines: cacheV4
TheCache == caches["v4"]
Store(c) == caches' = [caches EXCEPT !["v4"] = c]

\* the goroutines start in the order of their numbers
Startable(p) == At(p, "idle") /\ \A q \in Goroutines : q < p => ~At(q, "idle")

\* go HandleRequest(...) of the udp4 loop for a source that is not blocked:
\* the handler is before stats.RecordRequest(clientIP)
GoHandleRequest(p) ==
    /\ Startable(p)
    /\ \E ip \in {IPString(a.IP) : a \in RequestersOf("udp4")} :
         /\ ~IsBlocked(ipBlacklist, ip)
         /\ Goto(p, [goroutines[p] EXCEPT !.role = "handler", !.ip = ip, !.pc = "rrLock"])
    /\ UNCHANGED <<serviceVars, requestStats, caches, mutex, recorded, stored>>

\* the HTTP server calls the dashboard handler: it is before stats.GetStats()
GoDashboardHandler(p) ==
    /\ Startable(p)
    /\ Goto(p, [goroutines[p] EXCEPT !.role = "dashboard", !.pc = "gsRLock"])
    /\ UNCHANGED <<serviceVars, requestStats, caches, mutex, recorded, stored>>

\* RecordRequest: rs.Mutex.Lock()
RecordRequestLock(p) ==
    /\ At(p, "rrLock")
    /\ CanLock(mutex["stats"])
    /\ Lock("stats", p)
    /\ Goto(p, [goroutines[p] EXCEPT !.pc = "rrTime"])
    /\ UNCHANGED <<serviceVars, requestStats, caches, recorded, stored>>

\* RecordRequest: rs.LastRequestTime = time.Now()
RecordRequestTime(p) ==
    /\ At(p, "rrTime")
    /\ requestStats' = [requestStats EXCEPT !.LastRequestTime = now]
    /\ Goto(p, [goroutines[p] EXCEPT !.wrote = now, !.pc = "rrIP"])
    /\ UNCHANGED <<serviceVars, caches, mutex, recorded, stored>>

\* RecordRequest: rs.LastRequestIP = ip
RecordRequestIP(p) ==
    /\ At(p, "rrIP")
    /\ requestStats' = [requestStats EXCEPT !.LastRequestIP = goroutines[p].ip]
    /\ Goto(p, [goroutines[p] EXCEPT !.pc = "rrLoad"])
    /\ UNCHANGED <<serviceVars, caches, mutex, recorded, stored>>

\* RecordRequest: rs.TotalRequests++, the read
RecordRequestLoad(p) ==
    /\ At(p, "rrLoad")
    /\ Goto(p, [goroutines[p] EXCEPT !.load = requestStats.TotalRequests, !.pc = "rrStore"])
    /\ UNCHANGED <<serviceVars, requestStats, caches, mutex, recorded, stored>>

\* RecordRequest: rs.TotalRequests++, the write
RecordRequestStore(p) ==
    /\ At(p, "rrStore")
    /\ requestStats' = [requestStats EXCEPT !.TotalRequests = goroutines[p].load + 1]
    /\ Goto(p, [goroutines[p] EXCEPT !.pc = "rrUnlock"])
    /\ UNCHANGED <<serviceVars, caches, mutex, recorded, stored>>

\* RecordRequest returns: the deferred rs.Mutex.Unlock(); the handler is
\* before cache.Get()
RecordRequestUnlock(p) ==
    /\ At(p, "rrUnlock")
    /\ Unlock("stats", p)
    /\ recorded' = Append(recorded, [time |-> goroutines[p].wrote, ip |-> goroutines[p].ip])
    /\ Goto(p, [goroutines[p] EXCEPT !.wrote = ZeroTime, !.load = 0, !.pc = "getRLock"])
    /\ UNCHANGED <<serviceVars, requestStats, caches, stored>>

\* GetStats: rs.Mutex.RLock()
GetStatsRLock(p) ==
    /\ At(p, "gsRLock")
    /\ CanRLock(mutex["stats"])
    /\ RLock("stats", p)
    /\ Goto(p, [goroutines[p] EXCEPT !.pc = "gsTime"])
    /\ UNCHANGED <<serviceVars, requestStats, caches, recorded, stored>>

\* GetStats: the operands of the return statement, from the left
GetStatsTime(p) ==
    /\ At(p, "gsTime")
    /\ Goto(p, [goroutines[p] EXCEPT !.snap = <<requestStats.LastRequestTime>>, !.pc = "gsIP"])
    /\ UNCHANGED <<serviceVars, requestStats, caches, mutex, recorded, stored>>

GetStatsIP(p) ==
    /\ At(p, "gsIP")
    /\ Goto(p, [goroutines[p] EXCEPT !.snap = Append(@, requestStats.LastRequestIP),
                                     !.pc = "gsCount"])
    /\ UNCHANGED <<serviceVars, requestStats, caches, mutex, recorded, stored>>

GetStatsCount(p) ==
    /\ At(p, "gsCount")
    /\ Goto(p, [goroutines[p] EXCEPT !.snap = Append(@, requestStats.TotalRequests),
                                     !.pc = "gsRUnlock"])
    /\ UNCHANGED <<serviceVars, requestStats, caches, mutex, recorded, stored>>

\* GetStats returns: the deferred rs.Mutex.RUnlock(); the dashboard handler
\* is before cacheV4.Get()
GetStatsRUnlock(p) ==
    /\ At(p, "gsRUnlock")
    /\ RUnlock("stats", p)
    /\ Goto(p, [goroutines[p] EXCEPT !.snap = <<>>, !.pc = "getRLock"])
    /\ UNCHANGED <<serviceVars, requestStats, caches, recorded, stored>>

\* Get: c.Mutex.RLock()
GetRLock(p) ==
    /\ At(p, "getRLock")
    /\ CanRLock(mutex["cache"])
    /\ RLock("cache", p)
    /\ Goto(p, [goroutines[p] EXCEPT !.pc = "getInfo"])
    /\ UNCHANGED <<serviceVars, requestStats, caches, recorded, stored>>

\* Get: c.Info != nil && (c.Duration == 0 || ...: the timestamp is read
\* when there is an identity and the duration is not 0
GetInfo(p) ==
    /\ At(p, "getInfo")
    /\ Goto(p, [goroutines[p] EXCEPT
                  !.info = TheCache.Info,
                  !.pc = IF TheCache.Info.nil THEN "getRUnlock"
                         ELSE IF TheCache.Duration = 0 THEN "getReturn"
                         ELSE "getTimestamp"])
    /\ UNCHANGED <<serviceVars, requestStats, caches, mutex, recorded, stored>>

\* Get: time.Since(c.Timestamp) < c.Duration
GetTimestamp(p) ==
    /\ At(p, "getTimestamp")
    /\ Goto(p, [goroutines[p] EXCEPT
                  !.ts = TheCache.Timestamp, !.tested = TRUE,
                  !.pc = IF now - TheCache.Timestamp < TheCache.Duration
                         THEN "getReturn"
                         ELSE "getRUnlock"])
    /\ UNCHANGED <<serviceVars, requestStats, caches, mutex, recorded, stored>>

\* Get: return c.Info
GetReturn(p) ==
    /\ At(p, "getReturn")
    /\ Goto(p, [goroutines[p] EXCEPT !.got = TheCache.Info, !.pc = "getRUnlock"])
    /\ UNCHANGED <<serviceVars, requestStats, caches, mutex, recorded, stored>>

\* Get returning to its caller with the mutex still held for reading
GetReturnsLocked(p) ==
    /\ At(p, "getRUnlock")
    /\ Goto(p, [goroutines[p] EXCEPT
                  !.info = NilInfo, !.ts = ZeroTime, !.tested = FALSE, !.got = NilInfo,
                  !.pc = IF goroutines[p].role = "handler"
                         THEN IF goroutines[p].got.nil THEN "missLog" ELSE "hitLog"
                         ELSE IF goroutines[p].got.nil THEN "done" ELSE "age"])
    /\ UNCHANGED <<serviceVars, requestStats, caches, mutex, recorded, stored>>

\* Get returns: the deferred c.Mutex.RUnlock(); the caller tests the result
GetRUnlock(p) ==
    /\ At(p, "getRUnlock")
    /\ RUnlock("cache", p)
    /\ Goto(p, [goroutines[p] EXCEPT
                  !.info = NilInfo, !.ts = ZeroTime, !.tested = FALSE, !.got = NilInfo,
                  !.pc = IF goroutines[p].role = "handler"
                         THEN IF goroutines[p].got.nil THEN "missLog" ELSE "hitLog"
                         ELSE IF goroutines[p].got.nil THEN "done" ELSE "age"])
    /\ UNCHANGED <<serviceVars, requestStats, caches, recorded, stored>>

\* a value of time.Time no Set has written: some words of one write and
\* some of another
Torn == ZeroTime - 1

\* a read of c.Timestamp outside the lock: beside the write of a Set it is
\* a data race, and gives the old value, the new one or a torn one
TimestampOutsideLock(p) ==
    IF \E q \in Goroutines \ {p} : At(q, "setTimestamp")
    THEN {TheCache.Timestamp, now, Torn}
    ELSE {TheCache.Timestamp}

ReadOutsideLock(p, pc) ==
    \E t \in TimestampOutsideLock(p) :
        Goto(p, [goroutines[p] EXCEPT
                   !.seen = t,
                   !.raced = \E q \in Goroutines \ {p} : At(q, "setTimestamp"),
                   !.pc = pc])

\* HandleRequest after a miss: the debug line reads cache.Timestamp
MissLog(p) ==
    /\ At(p, "missLog")
    /\ ReadOutsideLock(p, "logged87")
    /\ UNCHANGED <<serviceVars, requestStats, caches, mutex, recorded, stored>>

\* HandleRequest after a miss: server.FetchInfo(serverURL)
Fetch(p) ==
    /\ At(p, "fetch")
    /\ \E answer \in env.upstream :
         LET r == FetchInfo(answer)
         IN  Goto(p, [goroutines[p] EXCEPT !.fetched = r.info,
                                           !.pc = IF r.err THEN "done" ELSE "setLock"])
    /\ UNCHANGED <<serviceVars, requestStats, caches, mutex, recorded, stored>>

\* Set: c.Mutex.Lock()
SetLock(p) ==
    /\ At(p, "setLock")
    /\ CanLock(mutex["cache"])
    /\ Lock("cache", p)
    /\ Goto(p, [goroutines[p] EXCEPT !.pc = "setInfo"])
    /\ UNCHANGED <<serviceVars, requestStats, caches, recorded, stored>>

\* Set: c.Info = info
SetInfo(p) ==
    /\ At(p, "setInfo")
    /\ Store([TheCache EXCEPT !.Info = goroutines[p].fetched])
    /\ Goto(p, [goroutines[p] EXCEPT !.pc = "setTimestamp"])
    /\ UNCHANGED <<serviceVars, requestStats, mutex, recorded, stored>>

\* Set: c.Timestamp = time.Now()
SetTimestamp(p) ==
    /\ At(p, "setTimestamp")
    /\ Store([TheCache EXCEPT !.Timestamp = now])
    /\ Goto(p, [goroutines[p] EXCEPT !.wrote = now, !.pc = "setUnlock"])
    /\ UNCHANGED <<serviceVars, requestStats, mutex, recorded, stored>>

\* Set returns: the deferred c.Mutex.Unlock()
SetUnlock(p) ==
    /\ At(p, "setUnlock")
    /\ Unlock("cache", p)
    /\ stored' = Append(stored, [info |-> goroutines[p].fetched, at |-> goroutines[p].wrote])
    /\ Goto(p, [goroutines[p] EXCEPT !.fetched = NilInfo, !.wrote = ZeroTime, !.pc = "setLog"])
    /\ UNCHANGED <<serviceVars, requestStats, caches, recorded>>

\* HandleRequest after cache.Set: the debug line reads cache.Timestamp
SetLog(p) ==
    /\ At(p, "setLog")
    /\ ReadOutsideLock(p, "logged")
    /\ UNCHANGED <<serviceVars, requestStats, caches, mutex, recorded, stored>>

\* HandleRequest after a hit: time.Since(cache.Timestamp) and the debug line
HitLog(p) ==
    /\ At(p, "hitLog")
    /\ ReadOutsideLock(p, "logged")
    /\ UNCHANGED <<serviceVars, requestStats, caches, mutex, recorded, stored>>

\* the dashboard handler with an identity: time.Since(cacheV4.Timestamp)
Age(p) ==
    /\ At(p, "age")
    /\ ReadOutsideLock(p, "logged")
    /\ UNCHANGED <<serviceVars, requestStats, caches, mutex, recorded, stored>>

\* the value read outside the lock is put in the log line or in the page,
\* and the goroutine goes on: to the fetch after the line of the miss,
\* to the rest of its work otherwise
Logged(p) ==
    /\ goroutines[p].pc \in {"logged87", "logged"}
    /\ Goto(p, [goroutines[p] EXCEPT !.seen = ZeroTime, !.raced = FALSE,
                                     !.pc = IF At(p, "logged87") THEN "fetch"
                                            ELSE IF goroutines[p].role = "handler" THEN "send"
                                            ELSE "done"])
    /\ UNCHANGED <<serviceVars, requestStats, caches, mutex, recorded, stored>>

\* the URLs startListeners gave to the handlers of the udp4 loop
HandlerURLs == ListenerArgs("udp4")
\* the test of HandleRequest for the dual responses
DualResponses == HandlerURLs.proxyURL # EmptyURL /\ IsHostname(HandlerURLs.proxyURL)

\* HandleRequest: the first (or only) SendResponse, with conn.WriteToUDP
Send(p) ==
    /\ At(p, "send")
    /\ Goto(p, [goroutines[p] EXCEPT !.pc = IF DualResponses THEN "resolve" ELSE "done"])
    /\ UNCHANGED <<serviceVars, requestStats, caches, mutex, recorded, stored>>

\* HandleRequest: server.ResolveHostnameToIP(proxyURL), with net.LookupIP
Resolve(p) ==
    /\ At(p, "resolve")
    /\ \E answer \in LookupIP(SplitHost(HandlerURLs.proxyURL)) :
         LET r == ResolveHostnameToIP(HandlerURLs.proxyURL, answer)
         IN  Goto(p, [goroutines[p] EXCEPT !.pc = IF r.err THEN "done" ELSE "send2"])
    /\ UNCHANGED <<serviceVars, requestStats, caches, mutex, recorded, stored>>

\* HandleRequest: the second SendResponse
Send2(p) ==
    /\ At(p, "send2")
    /\ Goto(p, [goroutines[p] EXCEPT !.pc = "done"])
    /\ UNCHANGED <<serviceVars, requestStats, caches, mutex, recorded, stored>>

\* the deployment of the goroutines followed statement by statement: the
\* advertise URL is a name, the cache lives one unit of the clock, and the
\* upstream gives every answer
LockDeployment ==
    [cfg |-> ConfigName, cacheDuration |-> 1,
     binds |-> {BindOutcome(TRUE, FALSE, TRUE, TRUE)},
     upstream |-> {a \in UpstreamAnswers : a.Id # Absent /\ a.ServerName # Absent},
     writes |-> {TRUE}, payloads |-> {DiscoveryQuery}]

\* the service after a failed first fetch, its handlers and the dashboard
\* handler followed inside the locked methods
InitLocks ==
    /\ Start(LockDeployment)
    /\ call = NoCall

NextLocks ==
    \/ Tick
    \/ \E p \in Goroutines : GoHandleRequest(p)
    \/ \E p \in Goroutines : GoDashboardHandler(p)
    \/ \E p \in Goroutines : RecordRequestLock(p)
    \/ \E p \in Goroutines : RecordRequestTime(p)
    \/ \E p \in Goroutines : RecordRequestIP(p)
    \/ \E p \in Goroutines : RecordRequestLoad(p)
    \/ \E p \in Goroutines : RecordRequestStore(p)
    \/ \E p \in Goroutines : RecordRequestUnlock(p)
    \/ \E p \in Goroutines : GetStatsRLock(p)
    \/ \E p \in Goroutines : GetStatsTime(p)
    \/ \E p \in Goroutines : GetStatsIP(p)
    \/ \E p \in Goroutines : GetStatsCount(p)
    \/ \E p \in Goroutines : GetStatsRUnlock(p)
    \/ \E p \in Goroutines : GetRLock(p)
    \/ \E p \in Goroutines : GetInfo(p)
    \/ \E p \in Goroutines : GetTimestamp(p)
    \/ \E p \in Goroutines : GetReturn(p)
    \/ \E p \in Goroutines : GetRUnlock(p)
    \/ \E p \in Goroutines : MissLog(p)
    \/ \E p \in Goroutines : Fetch(p)
    \/ \E p \in Goroutines : SetLock(p)
    \/ \E p \in Goroutines : SetInfo(p)
    \/ \E p \in Goroutines : SetTimestamp(p)
    \/ \E p \in Goroutines : SetUnlock(p)
    \/ \E p \in Goroutines : SetLog(p)
    \/ \E p \in Goroutines : HitLog(p)
    \/ \E p \in Goroutines : Age(p)
    \/ \E p \in Goroutines : Logged(p)
    \/ \E p \in Goroutines : Send(p)
    \/ \E p \in Goroutines : Resolve(p)
    \/ \E p \in Goroutines : Send2(p)

SpecLocks == InitLocks /\ [][NextLocks]_vars

\* the same goroutines followed inside the methods of requestStats only:
\* the handlers up to the return of RecordRequest, the dashboard handlers up
\* to the return of GetStats
NextStats ==
    \/ Tick
    \/ \E p \in Goroutines : GoHandleRequest(p)
    \/ \E p \in Goroutines : GoDashboardHandler(p)
    \/ \E p \in Goroutines : RecordRequestLock(p)
    \/ \E p \in Goroutines : RecordRequestTime(p)
    \/ \E p \in Goroutines : RecordRequestIP(p)
    \/ \E p \in Goroutines : RecordRequestLoad(p)
    \/ \E p \in Goroutines : RecordRequestStore(p)
    \/ \E p \in Goroutines : RecordRequestUnlock(p)
    \/ \E p \in Goroutines : GetStatsRLock(p)
    \/ \E p \in Goroutines : GetStatsTime(p)
    \/ \E p \in Goroutines : GetStatsIP(p)
    \/ \E p \in Goroutines : GetStatsCount(p)
    \/ \E p \in Goroutines : GetStatsRUnlock(p)

SpecStats == InitLocks /\ [][NextStats]_vars

(***************************************************************************)
(* The properties.                                                         *)
(***************************************************************************)
\* the handlers that are running
Running == BagToSet(handlers)
\* the handlers that are running after the step
RunningNext == BagToSet(handlers')
\* the step is one of handler h
Stepped(h) == CopiesIn(h, handlers') < CopiesIn(h, handlers)
\* handler h has returned from HandleRequest
Completed(h) == h.pc = "done"
\* handler h has an identity: a cache hit, or a miss and a successful fetch
Resolved(h) == ~h.serverInfo.nil

\* rule entry of the BLACKLIST string blocks address ip: the literal is the
\* address, or the address is inside the subnet
RuleBlocks(entry, ip) ==
    \/ entry.kind = "ip" /\ entry = IPString(ip)
    \/ /\ entry.kind = "cidr"
       /\ entry.ip # NoIP
       /\ entry.ip.fam = ip.fam
       /\ ip.val \div Pow2(AddrBits - entry.bits) = entry.ip.val \div Pow2(AddrBits - entry.bits)

BlockedSource(ip) ==
    \E i \in 1..Len(BlacklistString) : RuleBlocks(BlacklistString[i], ip)

\* C1: the handler of a query from a blocked source IP (a literal rule or a
\* configured subnet) sends no datagram, attempts no send, and records
\* nothing: its step leaves counter, last IP and last time of RequestStats
\* as they were.
C1_BlockedSourceIsSilent ==
    [][ /\ \A h \in RunningNext :
             BlockedSource(h.addr.IP) =>
                 /\ h.out = <<>> /\ h.writes = 0 /\ h.records = 0
                 /\ h.pc \in {"check", "done"}
        /\ \A h \in Running :
             BlockedSource(h.addr.IP) /\ Stepped(h) =>
                 GetStats(requestStats') = GetStats(requestStats) ]_vars

\* a handler of a literal-blocked IPv4 source and one of a subnet-blocked
\* IPv6 source have both returned, and nothing was recorded
C1_Witness ==
    \E h4 \in Running, h6 \in Running :
        /\ BlockedSource(h4.addr.IP) /\ h4.addr.IP.fam = "ip4" /\ Completed(h4)
        /\ BlockedSource(h6.addr.IP) /\ h6.addr.IP.fam = "ip6" /\ Completed(h6)
        /\ requestStats.TotalRequests = 0

\* C2 as stated: every returned handler of a non-blocked source with an
\* identity has recorded once and put at least one datagram on the wire.
C2_AsStated ==
    \A h \in Running :
        Completed(h) /\ ~BlockedSource(h.addr.IP) /\ Resolved(h) =>
            h.records = 1 /\ Len(h.out) >= 1

\* C2, amended: the handler of a non-blocked source with an identity
\* increments the counter of RequestStats exactly once and calls WriteToUDP
\* at least once; every call that does not fail is one outbound datagram, so
\* at least one datagram goes out unless a write fails.
C2_RecordsOnceAndSends ==
    [][ /\ \A h \in RunningNext :
             Completed(h) /\ ~BlockedSource(h.addr.IP) /\ Resolved(h) =>
                 /\ h.records = 1
                 /\ h.writes >= 1
                 /\ Len(h.out) = h.writes - h.failed
                 /\ h.failed = 0 => Len(h.out) >= 1
        /\ requestStats'.TotalRequests = requestStats.TotalRequests +
               (IF \E h \in Running :
                      Stepped(h) /\ h.pc = "check" /\ ~BlockedSource(h.addr.IP)
                THEN 1 ELSE 0) ]_vars

\* a handler that missed, fetched, recorded once and sent has returned
C2_Witness ==
    \E h \in Running :
        /\ Completed(h) /\ ~BlockedSource(h.addr.IP) /\ Resolved(h)
        /\ h.fetches = 1 /\ h.records = 1 /\ Len(h.out) >= 1
        /\ requestStats.TotalRequests = 1

\* C3: a handler that saw a cache miss and whose upstream fetch failed
\* (transport error, status other than 200, undecodable body) returns
\* without a send and without a cache write: it never reaches cache.Set or
\* SendResponse, and each of its steps leaves both cache entries (identity
\* and timestamp) as they were.
C3_FailedFetchIsSilent ==
    [][ /\ \A h \in RunningNext :
             h.fetchErr =>
                 /\ Completed(h) /\ h.serverInfo.nil
                 /\ h.out = <<>> /\ h.writes = 0 /\ h.sets = 0
        /\ \A h \in Running :
             Stepped(h) /\ h.pc # "set" => caches' = caches
        /\ \A h \in Running :
             Stepped(h) /\ h.pc = "fetch" =>
                 \A g \in RunningNext :
                     g.addr = h.addr /\ g.pc = "set" =>
                         \E a \in env.upstream : ~FetchInfo(a).err /\ FetchInfo(a).info = g.serverInfo
      ]_vars

\* a handler found the entry expired, its fetch failed, it has returned, and
\* the expired entry is still in the cache
C3_Witness ==
    \E h \in Running :
        /\ h.fetchErr /\ Completed(h) /\ h.fetches = 1
        /\ ~caches[h.cache].Info.nil
        /\ caches[h.cache].Timestamp = lastSet[h.cache].at

\* C4: with a cache duration above 0, at every moment and after every
\* sequence of Set calls, Get returns the identity of the most recent Set
\* when strictly less than the duration has elapsed since that Set, and
\* returns nil when the duration or more has elapsed or no Set has happened.
C4_GetWithinDuration ==
    \A f \in {"v4", "v6"} :
        caches[f].Duration > 0 =>
            Get(caches[f], now) =
                IF lastSet[f].done /\ now - lastSet[f].at < caches[f].Duration
                THEN lastSet[f].info
                ELSE NilInfo

\* the duration has elapsed since the last Set and a handler got nil
C4_Witness ==
    \E f \in {"v4", "v6"} :
        /\ caches[f].Duration > 0
        /\ lastSet[f].done
        /\ now - lastSet[f].at >= caches[f].Duration
        /\ \E h \in Running : h.cache = f /\ h.pc = "fetch" /\ h.serverInfo.nil

\* C5: with the cache duration 0, once a Set has happened Get returns the
\* identity of the most recent Set whatever time has elapsed; the entry is
\* never nil again.
C5_ZeroDurationNeverExpires ==
    \A f \in {"v4", "v6"} :
        caches[f].Duration = 0 /\ lastSet[f].done =>
            /\ Get(caches[f], now) = lastSet[f].info
            /\ ~Get(caches[f], now).nil

\* time has passed since the only Set and a handler got the identity
C5_Witness ==
    \E f \in {"v4", "v6"} :
        /\ caches[f].Duration = 0
        /\ lastSet[f].done
        /\ now > lastSet[f].at
        /\ \E h \in Running :
               h.cache = f /\ h.pc = "send" /\ h.fetches = 0 /\ h.serverInfo = lastSet[f].info

\* the advertise URL of handler h is a hostname / a literal IP
AdvertisesHostname(h) == h.proxyURL.kind = "url" /\ h.proxyURL.host.kind = "name"
AdvertisesLiteral(h) == h.proxyURL.kind = "url" /\ h.proxyURL.host.kind = "ip"
\* the hostname of handler h was resolved to an IPv4 literal
ResolvedToLiteral(h) == h.lookups = 1 /\ h.ipURL # EmptyURL

\* C6 as stated: a returned handler with an identity has produced exactly
\* two distinct datagrams (hostname form, literal form) when the advertise
\* URL is a hostname that resolved to an IPv4 literal, and exactly one when
\* the advertise URL is a literal IP.
C6_AsStated ==
    \A h \in Running :
        Completed(h) /\ Resolved(h) =>
            /\ AdvertisesHostname(h) /\ ResolvedToLiteral(h) =>
                   /\ Len(h.out) = 2
                   /\ h.out[1].payload.Address = h.proxyURL
                   /\ h.out[2].payload.Address = h.ipURL
                   /\ h.out[1] # h.out[2]
            /\ AdvertisesLiteral(h) => Len(h.out) = 1

\* C6, amended: with a hostname that resolved to an IPv4 literal the handler
\* calls WriteToUDP exactly twice, first with the hostname form and then
\* with the literal form, and with a literal IP exactly once; every call
\* that does not fail is one datagram, so two distinct datagrams (one
\* datagram) are produced when no write fails.
C6_DualResponse ==
    \A h \in Running :
        Completed(h) /\ Resolved(h) =>
            /\ Len(h.out) = h.writes - h.failed
            /\ AdvertisesHostname(h) /\ ResolvedToLiteral(h) =>
                   /\ h.writes = 2
                   /\ h.failed = 0 =>
                          /\ Len(h.out) = 2
                          /\ h.out[1].payload.Address = h.proxyURL
                          /\ h.out[1].payload.Address.host.kind = "name"
                          /\ h.out[2].payload.Address = h.ipURL
                          /\ h.out[2].payload.Address.host.kind = "ip"
                          /\ h.out[2].payload.Address.host.ip.fam = "ip4"
                          /\ h.out[1] # h.out[2]
            /\ AdvertisesLiteral(h) =>
                   /\ h.writes = 1
                   /\ h.failed = 0 =>
                          Len(h.out) = 1 /\ h.out[1].payload.Address = h.proxyURL

\* a handler advertising a hostname has returned after two datagrams
C6_Witness ==
    \E h \in Running :
        /\ Completed(h) /\ Resolved(h)
        /\ AdvertisesHostname(h) /\ ResolvedToLiteral(h)
        /\ Len(h.out) = 2 /\ h.out[1] # h.out[2]

\* C7 as stated: while less than the cache duration has elapsed since the
\* start, so that all queries so far arrived within one window, no two
\* handlers of queries from the same source on the same cache have both
\* called FetchInfo (here: called it with success and written the result).
C7_AsStated ==
    \A h1 \in Running, h2 \in Running :
        /\ h1 # h2 \/ CopiesIn(h1, handlers) > 1
        /\ h1.addr = h2.addr /\ h1.cache = h2.cache
        /\ now - StartTime < caches[h1.cache].Duration
        => ~(/\ h1.fetches >= 1 /\ ~h1.fetchErr /\ h1.sets = 1
             /\ h2.fetches >= 1 /\ ~h2.fetchErr /\ h2.sets = 1)

\* C7, amended: a query whose handler reads the cache after a Set has
\* completed and within the duration of that Set (or at any time later when
\* the duration is 0) gets the identity from the cache and triggers no
\* upstream fetch, and no handler calls FetchInfo more than once; a handler
\* that calls FetchInfo read the cache when no Set within the duration
\* preceded it.
C7_NoFetchOnFreshEntry ==
    \A h \in Running :
        /\ h.fetches <= 1
        /\ h.pc \notin {"check", "get"} /\ h.fresh =>
               h.fetches = 0 /\ ~h.serverInfo.nil /\ h.pc # "fetch"
        /\ h.fetches = 1 => ~h.fresh

\* the second query of a source is answered from the entry the handler of
\* its first query has written, with a duration above 0
C7_Witness ==
    \E h \in Running :
        /\ h.fresh /\ h.pc = "send" /\ h.fetches = 0
        /\ caches[h.cache].Duration > 0
        /\ spawned = 2
        /\ requestStats.TotalRequests = 2
        /\ lastSet[h.cache].at > StartTime

\* the URL a handler selects: the advertise URL, or the upstream URL when no
\* advertise URL is configured
SelectedURL(h) == IF h.proxyURL = EmptyURL THEN h.serverURL ELSE h.proxyURL
\* the identities the upstream gives in this run
UpstreamIdentities == {FetchInfo(a).info : a \in {x \in env.upstream : ~FetchInfo(x).err}}

IsQueryIgnoringCase(message) ==
    /\ Len(message) = Len(DiscoveryQuery)
    /\ \A i \in 1..Len(message) : ToUpperChar(message[i]) = ToUpperChar(DiscoveryQuery[i])

\* C9: a received datagram dispatches a handler if and only if its payload
\* is "Who is JellyfinServer?" with the letter case ignored: a dispatch adds
\* exactly one new handler and nothing else; for any other payload no
\* handler is added, no handler moves (so nothing is sent), stats and caches
\* are unchanged, and the loops stay in service.
C9_DispatchIffQuery ==
    [][ (lastMessage' # lastMessage \/ spawned' # spawned) =>
           /\ lastMessage'.message \in env.payloads
           /\ lastMessage'.dispatched <=> IsQueryIgnoringCase(lastMessage'.message)
           /\ lastMessage'.dispatched <=> spawned' = spawned + 1
           /\ lastMessage'.dispatched =>
                  \E c \in conns : \E addr \in RequestersOf(c) :
                      handlers' = handlers (+) SetToBag({NewHandler(c, addr)})
           /\ ~lastMessage'.dispatched =>
                  handlers' = handlers /\ spawned' = spawned
           /\ requestStats' = requestStats
           /\ caches' = caches
           /\ loops' = loops
           /\ \E c \in conns : loops'[c] = "read" ]_vars

\* after a dispatch a loop has read a payload that is not the query, and the
\* handler dispatched before is still where it was
C9_Witness ==
    /\ lastMessage.message # NoMessage
    /\ ~IsQueryIgnoringCase(lastMessage.message)
    /\ ~lastMessage.dispatched
    /\ spawned = 1
    /\ \E h \in Running : h.pc = "check"

\* C10: every response datagram of a handler goes to the source address
\* and port the loop passed to the handler with the query, on the socket
\* that received the query; address and socket of a handler never change,
\* whatever other handlers do and whatever the loops receive later.
C10_ResponseToRequester ==
    [][ \A g \in RunningNext :
            CopiesIn(g, handlers') > CopiesIn(g, handlers) =>
                \/ /\ spawned' = spawned + 1
                   /\ g.out = <<>>
                   /\ g.conn \in conns
                   /\ g.addr \in RequestersOf(g.conn)
                \/ \E h \in Running :
                      /\ Stepped(h)
                      /\ g.addr = h.addr /\ g.conn = h.conn
                      /\ \/ g.out = h.out
                         \/ /\ Len(g.out) = Len(h.out) + 1
                            /\ SubSeq(g.out, 1, Len(h.out)) = h.out
                            /\ g.out[Len(g.out)].to = h.addr
                            /\ g.out[Len(g.out)].via = h.conn ]_vars

\* two handlers of different requesters on different sockets run at once,
\* and each has put a datagram on the wire
C10_Witness ==
    \E h1 \in Running, h2 \in Running :
        /\ h1.addr # h2.addr /\ h1.conn # h2.conn
        /\ Len(h1.out) >= 1 /\ h1.out[1].to = h1.addr /\ h1.out[1].via = h1.conn
        /\ Len(h2.out) >= 1 /\ h2.out[1].to = h2.addr /\ h2.out[1].via = h2.conn

\* the resolution of the advertised hostname of handler h has failed
ResolutionFailed(h) == AdvertisesHostname(h) /\ h.lookups = 1 /\ h.ipURL = EmptyURL

\* C11 as stated: a handler advertising a hostname whose resolution failed
\* has put exactly one datagram on the wire, the hostname form.
C11_AsStated ==
    \A h \in Running :
        ResolutionFailed(h) =>
            Len(h.out) = 1 /\ h.out[1].payload.Address = h.proxyURL

\* C11, amended: a handler advertising a hostname whose resolution failed
\* (a lookup error, or an answer without a non-loopback IPv4 address) has
\* called WriteToUDP exactly once, with the hostname form, which is one
\* datagram unless the call failed; it calls it no second time and returns;
\* the step of the resolution leaves the caches, the stats, the loops and
\* the sockets as they were.
C11_ResolutionFailure ==
    [][ /\ \A h \in RunningNext :
             ResolutionFailed(h) =>
                 /\ h.pc = "done"
                 /\ h.writes = 1
                 /\ Len(h.out) = 1 - h.failed
                 /\ h.failed = 0 =>
                        /\ h.out[1].payload.Address = h.proxyURL
                        /\ h.out[1].payload.Address.host.kind = "name"
        /\ \A h \in Running :
             h.pc = "resolve" /\ Stepped(h) =>
                 /\ caches' = caches
                 /\ GetStats(requestStats') = GetStats(requestStats)
                 /\ loops' = loops
                 /\ closed' = closed /\ ctxDone' = ctxDone ]_vars

\* a handler has returned after the hostname form alone: the lookup gave an
\* error or no non-loopback IPv4 address
C11_Witness ==
    \E h \in Running :
        /\ ResolutionFailed(h) /\ Completed(h)
        /\ Len(h.out) = 1 /\ h.out[1].payload.Address = h.proxyURL
        /\ loops[h.conn] = "read"

\* the advertise URL and the upstream URL main has configured for the
\* socket of handler h
ConfiguredProxyURL(h) == IF h.conn = "udp6" THEN cfg.ProxyURLv6 ELSE cfg.ProxyURLv4
ConfiguredServerURL(h) == IF h.conn = "udp6" THEN cfg.ServerURLv6 ELSE cfg.ServerURLv4

\* C12: the Address of the first response of every handler, which is the
\* first datagram it hands to the socket, is the configured advertise URL
\* when that is not empty and the configured upstream URL otherwise; the
\* first datagram on the wire carries it whenever the first write did not
\* fail.
C12_FirstAddress ==
    \A h \in Running :
        /\ Len(h.sent) = h.writes
        /\ h.writes >= 1 =>
               /\ ConfiguredProxyURL(h) # EmptyURL => h.sent[1] = ConfiguredProxyURL(h)
               /\ ConfiguredProxyURL(h) = EmptyURL => h.sent[1] = ConfiguredServerURL(h)
        /\ h.writes >= 1 /\ h.failed = 0 =>
               h.out[1].payload.Address = h.sent[1]
        /\ h.writes = 1 /\ h.failed = 1 => h.out = <<>>

\* a response has gone out with the advertise URL of a deployment whose
\* advertise URL differs from its upstream URL
C12_Witness ==
    \E h \in Running :
        /\ Len(h.out) >= 1 /\ h.failed = 0
        /\ ConfiguredProxyURL(h) # EmptyURL
        /\ ConfiguredProxyURL(h) # ConfiguredServerURL(h)
        /\ h.out[1].payload.Address = ConfiguredProxyURL(h)
\* a response has gone out with the upstream URL of a deployment that has no
\* advertise URL
C12_WitnessUpstream ==
    \E h \in Running :
        /\ Len(h.out) = 1 /\ h.failed = 0
        /\ ConfiguredProxyURL(h) = EmptyURL
        /\ h.out[1].payload.Address = ConfiguredServerURL(h)

\* entry is a literal that names address ip, in whatever spelling
Names(entry, ip) == entry.kind = "ip" /\ entry.ip # NoIP /\ entry.ip = ip
\* entry is a well-formed subnet that address ip lies in
Inside(entry, ip) ==
    /\ entry.kind = "cidr"
    /\ entry.ip # NoIP
    /\ entry.ip.fam = ip.fam
    /\ ip.val \div Pow2(AddrBits - entry.bits) = entry.ip.val \div Pow2(AddrBits - entry.bits)

\* C13: IsBlocked of an address is true exactly when some accepted literal
\* entry of the BLACKLIST string names the address, in whatever spelling, or
\* some accepted subnet entry contains it.
C13_AsStated ==
    call.fn = "IsBlocked" /\ Returned =>
        Result = \E i \in 1..Len(call.in.blacklistStr) :
                     \/ Names(call.in.blacklistStr[i], call.in.ip)
                     \/ Inside(call.in.blacklistStr[i], call.in.ip)

\* entry is a well-formed literal / a well-formed subnet
IsLiteralRule(entry) == entry.kind = "ip" /\ entry.ip # NoIP
IsSubnetRule(entry) == entry.kind = "cidr" /\ entry.ip # NoIP

\* C14: blacklist.New returns a blacklist for every string; a malformed or
\* empty entry leaves no rule, every well-formed entry before and after it
\* is a rule (a literal in IPs, a subnet in Subnets, in the order of the
\* string), and Count is the number of literal rules plus the number of
\* subnet rules.
C14_NewSkipsMalformed ==
    call.fn = "New" /\ Returned =>
        LET str == call.in.blacklistStr
            bl == Result
        IN  /\ bl.IPs = {str[i] : i \in {j \in 1..Len(str) : IsLiteralRule(str[j])}}
            /\ LET subnets == SelectSeq(str, IsSubnetRule)
               IN  /\ Len(bl.Subnets) = Len(subnets)
                   /\ \A i \in 1..Len(subnets) : bl.Subnets[i] = ParseCIDR(subnets[i])
            /\ \A i \in 1..Len(str) :
                   ~IsLiteralRule(str[i]) => str[i] \notin bl.IPs
            /\ Count(bl) = Cardinality(bl.IPs) + Len(bl.Subnets)
            /\ Count(bl) = Cardinality({str[i] : i \in {j \in 1..Len(str) : IsLiteralRule(str[j])}})
                           + Len(SelectSeq(str, IsSubnetRule))

\* a blacklist of two rules was made of a string with a malformed entry
\* between a literal and a subnet
C14_Witness ==
    /\ call.fn = "New" /\ Returned
    /\ Len(call.in.blacklistStr) = 3
    /\ IsLiteralRule(call.in.blacklistStr[1])
    /\ call.in.blacklistStr[2] = BadText
    /\ IsSubnetRule(call.in.blacklistStr[3])
    /\ Count(Result) = 2

\* the text is a URL with a host
HasHost(u) == u.kind = "url" /\ u.host.kind # "none"

\* C15: IsHostname is false for every URL whose host is a literal IPv4 or
\* IPv6 address (with or without a port, IPv6 in brackets), true for every
\* URL whose host is a name, and false for every text that is no URL with a
\* host.
C15_AsStated ==
    call.fn = "IsHostname" /\ Returned =>
        LET u == call.in.urlStr
        IN  /\ HasHost(u) /\ u.host.kind = "ip" => Result = FALSE
            /\ HasHost(u) /\ u.host.kind = "name" => Result = TRUE
            /\ ~HasHost(u) => Result = FALSE

\* the first address of the answer that is IPv4 and not loopback, if any
NonLoopbackIPv4(ips) ==
    {i \in 1..Len(ips) : ips[i].fam = "ip4" /\ ips[i].val # LoopbackVal}
FirstNonLoopbackIPv4(ips) ==
    ips[CHOOSE i \in NonLoopbackIPv4(ips) : \A j \in NonLoopbackIPv4(ips) : i <= j]

\* C16: ResolveHostnameToIP of a URL returns the URL with the host replaced
\* by the first IPv4 address of the lookup answer that is not loopback, and
\* with the scheme, the port and the path of the input; it returns an error
\* and the empty text when the lookup fails or the answer has no such
\* address.
C16_ResolveKeepsTheRest ==
    call.fn = "ResolveHostnameToIP" /\ Returned /\ call.in.urlStr.kind = "url" =>
        LET u == call.in.urlStr
            a == call.in.answer
        IN  IF a.err \/ NonLoopbackIPv4(a.ips) = {}
            THEN Result.err /\ Result.url = EmptyURL
            ELSE /\ ~Result.err
                 /\ Result.url.kind = "url"
                 /\ Result.url.host = IP4Host(FirstNonLoopbackIPv4(a.ips))
                 /\ Result.url.scheme = u.scheme
                 /\ Result.url.port = u.port
                 /\ Result.url.path = u.path

\* a name with a port and a path was resolved, the first IPv4 address of
\* the answer that is not loopback coming after an IPv6 and a loopback one
C16_Witness ==
    /\ call.fn = "ResolveHostnameToIP" /\ Returned
    /\ call.in.urlStr = URLOf("https", NameHost("jellyfin.local"), "8096", "/jellyfin")
    /\ Len(call.in.answer.ips) = 4
    /\ Result = [err |-> FALSE, url |-> URLOf("https", IP4Host(IPv4(4)), "8096", "/jellyfin")]

\* C17 as stated: FetchInfo returns an identity exactly when the GET
\* completes, the status is a success status (200 to 299) and the body
\* decodes.
C17_AsStated ==
    call.fn = "FetchInfo" /\ Returned =>
        LET a == call.in.answer
        IN  ~Result.err <=> a.transport = "ok" /\ a.status \in 200..299 /\ a.body = "json"

\* C17, amended: FetchInfo returns an identity exactly when the GET
\* completes, the status is 200 and the body decodes, and the identity is
\* the one of the body; a transport failure, every other status and a
\* malformed body give an error and no identity.
C17_FetchIffStatusOK ==
    call.fn = "FetchInfo" /\ Returned =>
        LET a == call.in.answer
        IN  /\ ~Result.err <=> a.transport = "ok" /\ a.status = StatusOK /\ a.body = "json"
            /\ ~Result.err =>
                 /\ ~Result.info.nil
                 /\ Result.info.Id = (IF a.Id = Absent THEN "" ELSE a.Id)
                 /\ Result.info.ServerName = (IF a.ServerName = Absent THEN "" ELSE a.ServerName)
            /\ Result.err => Result.info = NilInfo

\* FetchInfo has returned an error for an answer with status 203 and a body
\* that decodes
C17_Witness ==
    /\ call.fn = "FetchInfo" /\ Returned
    /\ call.in.answer.status \in 201..299 /\ call.in.answer.body = "json"
    /\ Result.err

\* the IPv4 socket / the IPv6 socket cannot be bound
IPv4BindFails(b) == ~b.resolve4 \/ ~b.listen4
IPv6BindFails(bindIP, b) == bindIP # "0.0.0.0" \/ ~b.resolve6 \/ ~b.listen6

FamilyArgs(fam) ==
    IF fam = "ip6"
    THEN [serverURL |-> cfg.ServerURLv6, proxyURL |-> cfg.ProxyURLv6, cache |-> "v6"]
    ELSE [serverURL |-> cfg.ServerURLv4, proxyURL |-> cfg.ProxyURLv4, cache |-> "v4"]

\* the handler of a query answers with the URLs and the cache of the
\* address family of the client
AnswersByFamily(h) ==
    LET args == FamilyArgs(h.addr.IP.fam)
    IN  /\ h.serverURL = args.serverURL
        /\ h.proxyURL = args.proxyURL
        /\ h.cache = args.cache
        /\ \A i \in 1..Len(h.sent) :
               \/ h.sent[i] = (IF args.proxyURL # EmptyURL THEN args.proxyURL
                               ELSE args.serverURL)
               \/ i = 2 /\ h.sent[i] = h.ipURL

GraceElapsed == mainPC \in {"slept", "exit"}

\* C20: no socket is closed before the grace period after the cancellation
\* is over, so that a handler in flight that comes to its send within the
\* grace period finds its socket open.
C20_AsStated ==
    /\ closed # {} => GraceElapsed
    /\ \A h \in Running :
           ctxDone /\ ~GraceElapsed /\ h.pc \in {"send", "send2"} => h.conn \notin closed

\* within the grace period a handler in flight has come to its send and
\* WriteToUDP has failed on the socket closeConnections has closed
C20_ClosedBeforeGrace ==
    /\ mainPC = "closed"
    /\ env.writes = {TRUE}
    /\ \E h \in Running :
           h.conn \in closed /\ Completed(h) /\ h.writes = 1 /\ h.failed = 1 /\ h.out = <<>>

\* the loop of socket c is running
LoopRunning(c) == loops[c] \in {"select", "read"}

\* C21: once the context is cancelled, every loop that is running comes to
\* its end: it returns at the select after the next read deadline, after
\* the error of the read on its closed socket, or after one more datagram,
\* however many datagrams the requesters send (or the process has ended
\* before).
C21_LoopsReturn ==
    \A c \in Conns : (ctxDone /\ LoopRunning(c)) ~> ~LoopRunning(c)

\* the loop of a socket that is still open has returned after the
\* cancellation, main being in the shutdown of the HTTP server
C21_Witness ==
    \E c \in conns :
        ctxDone /\ mainPC = "cancelled" /\ c \notin closed /\ loops[c] = "returned"

\* goroutine p is at the return of GetStats with its three values read
SnapshotOf(p) == goroutines[p].snap
HasSnapshot(p) == At(p, "gsRUnlock")

\* C22: every snapshot GetStats returns is the state no call has touched
\* (zero time, no address, count 0), or the time and the address written by
\* one RecordRequest call with, as its count, the number of the calls that
\* returned up to and including that one.
C22_SnapshotOfOneCall ==
    \A p \in Goroutines :
        HasSnapshot(p) =>
            LET time == SnapshotOf(p)[1]
                ip == SnapshotOf(p)[2]
                count == SnapshotOf(p)[3]
            IN  IF count = 0
                THEN time = ZeroTime /\ ip = EmptyText
                ELSE /\ count <= Len(recorded)
                     /\ recorded[count] = [time |-> time, ip |-> ip]

\* a snapshot of the last RecordRequest call that returned, taken while the
\* call of another handler waits for the lock
C22_Witness ==
    \E p, q \in Goroutines :
        /\ HasSnapshot(p)
        /\ SnapshotOf(p)[3] >= 1
        /\ At(q, "rrLock")
        /\ Len(recorded) = SnapshotOf(p)[3]

\* no handler is in flight: every handler dispatched has returned
Quiescent == \A h \in Running : Completed(h)
QuiescentNext == \A h \in RunningNext : Completed(h)

\* C23: the counter of requestStats never decreases, and whenever no handler
\* is in flight it is the number of the discovery queries of sources not
\* blocked dispatched so far, whatever became of their identity.
C23_CounterCountsAllowed ==
    [][/\ requestStats'.TotalRequests >= requestStats.TotalRequests
       /\ QuiescentNext => requestStats'.TotalRequests = allowed']_vars

\* two queries have been handled, one with an identity and one whose fetch
\* failed, and both are counted
C23_Witness ==
    /\ Quiescent
    /\ requestStats.TotalRequests = 2
    /\ \E h \in Running : h.fetchErr
    /\ \E h \in Running : Resolved(h)

\* C23, inside RecordRequest: while no call holds the lock the counter is
\* the number of the calls that returned, so that no increment of two
\* calls running beside each other is lost
C23_NoLostIncrement ==
    mutex["stats"].w = 0 => requestStats.TotalRequests = Len(recorded)

\* the next statement of goroutine p reads or writes c.Info or c.Timestamp
AccessesCache(p) ==
    goroutines[p].pc \in {"getInfo", "getTimestamp", "getReturn", "setInfo", "setTimestamp",
                          "missLog", "setLog", "hitLog", "age"}
\* goroutine p holds the mutex of the cache, for reading or for writing
HoldsCacheLock(p) == mutex["cache"].w = p \/ p \in mutex["cache"].r

\* C24: every goroutine about to read or to write the identity or the
\* timestamp of the cache holds the lock of the cache, and so none is at
\* such an access while another goroutine is at the write of a Set.
C24_AsStated ==
    /\ \A p \in Goroutines : AccessesCache(p) => HoldsCacheLock(p)
    /\ \A p, q \in Goroutines :
           p # q /\ At(q, "setTimestamp") => ~AccessesCache(p)

\* a goroutine has read c.Timestamp outside the lock beside the write of
\* the Set of another handler, and has seen a value no Set has written
C24_RacingRead ==
    \E p \in Goroutines :
        /\ goroutines[p].raced
        /\ goroutines[p].seen = Torn
        /\ ~HoldsCacheLock(p)

\* the identity and the timestamp the cache holds
Held == [info |-> TheCache.Info, at |-> TheCache.Timestamp]
\* Get of goroutine p is at its return, after its test of c.Timestamp
GetTested(p) == At(p, "getRUnlock") /\ goroutines[p].tested

\* C25: whenever no Set is in progress the cache holds the identity and the
\* timestamp of the last Set that returned (nothing before the first), and
\* the identity a Get returns and the timestamp the Get tested are the pair
\* of one Set.
C25_SetReplacesPair ==
    /\ mutex["cache"].w = 0 =>
           IF stored = <<>>
           THEN Held = [info |-> NilInfo, at |-> ZeroTime]
           ELSE Held = stored[Len(stored)]
    /\ \A p \in Goroutines :
           GetTested(p) /\ ~goroutines[p].got.nil =>
               /\ goroutines[p].info = goroutines[p].got
               /\ \E k \in 1 .. Len(stored) :
                      stored[k] = [info |-> goroutines[p].got, at |-> goroutines[p].ts]

\* two handlers missed, fetched different identities and wrote them one
\* after the other; the cache holds the pair of the second, and a Get
\* returns it
C25_Witness ==
    /\ Len(stored) = 2
    /\ stored[1].info # stored[2].info
    /\ Held = stored[2]
    /\ \E p \in Goroutines : GetTested(p) /\ goroutines[p].got = stored[2].info

\* the cache of the family of the socket of handler h, and the other one
OwnCache(h) == IF IsIPv6Listener(h.conn) THEN "v6" ELSE "v4"
OtherCache(h) == IF IsIPv6Listener(h.conn) THEN "v4" ELSE "v6"

\* C26: a step of a handler leaves the cache of the other family as it is;
\* the identity its Get returns is the one of the cache of its own family,
\* and its Set writes that cache.
C26_OwnCacheOnly ==
    [][\A h \in Running :
           Stepped(h) =>
               /\ caches'[OtherCache(h)] = caches[OtherCache(h)]
               /\ lastSet'[OtherCache(h)] = lastSet[OtherCache(h)]
               /\ h.pc = "get" =>
                      \A g \in RunningNext :
                          CopiesIn(g, handlers') > CopiesIn(g, handlers) =>
                              g.serverInfo = Get(caches[OwnCache(h)], now)
               /\ h.pc = "set" =>
                      caches'[OwnCache(h)] = Set(caches[OwnCache(h)], h.serverInfo, now)]_vars

\* a handler of the IPv6 socket has fetched and written an identity, and
\* the IPv4 cache is still empty
C26_Witness ==
    \E h \in Running :
        /\ h.conn = "udp6"
        /\ h.sets = 1
        /\ ~caches["v6"].Info.nil
        /\ caches["v4"].Info.nil

\* C27: in every handler the record of the request follows the access
\* check, the Get follows the record, the fetch follows the Get, the Set
\* follows a fetch that succeeded, and a send follows all of them: a handler
\* that fetched has written the cache before its first send.
C27_StepsInOrder ==
    \A h \in Running :
        /\ h.pc = "check" =>
               h.records = 0 /\ h.fetches = 0 /\ h.sets = 0 /\ h.writes = 0
        /\ h.records = 1 <=> (h.pc # "check" /\ ~BlockedSource(h.addr.IP))
        /\ h.pc = "get" => h.records = 1 /\ h.fetches = 0 /\ h.sets = 0 /\ h.writes = 0
        /\ h.pc = "fetch" =>
               h.records = 1 /\ h.serverInfo.nil /\ h.fetches = 0 /\ h.sets = 0 /\ h.writes = 0
        /\ h.fetches >= 1 => h.records = 1
        /\ h.pc = "set" =>
               h.fetches = 1 /\ ~h.fetchErr /\ Resolved(h) /\ h.sets = 0 /\ h.writes = 0
        /\ h.sets >= 1 => h.fetches = 1 /\ ~h.fetchErr
        /\ h.pc = "send" => h.sets = h.fetches /\ h.writes = 0
        /\ h.writes >= 1 => h.records = 1 /\ Resolved(h) /\ h.sets = h.fetches

\* a handler has been through all the steps: recorded, missed, fetched,
\* written the cache, and sent
C27_Witness ==
    \E h \in Running :
        /\ Completed(h)
        /\ h.records = 1 /\ h.fetches = 1 /\ h.sets = 1 /\ h.writes >= 1
        /\ Len(h.out) >= 1

\* C28: a handler in dual-response mode has made the send of the hostname
\* form before ResolveHostnameToIP is called: at the resolution and ever
\* after, its first send is the one of the advertise URL as configured, a
\* second send is the one of the resolved URL, and what the first send put
\* on the wire is there whatever the resolution gives.
C28_HostnameFormFirst ==
    \A h \in Running :
        DualResponse(h) =>
            /\ h.pc = "resolve" => h.lookups = 0 /\ h.writes = 1
            /\ h.lookups >= 1 \/ h.pc = "resolve" =>
                   /\ h.writes >= 1
                   /\ h.sent[1] = h.proxyURL
                   /\ h.failed = 0 =>
                          Len(h.out) >= 1 /\ h.out[1].payload.Address = h.proxyURL
            /\ h.writes = 2 =>
                   /\ h.lookups = 1
                   /\ h.sent[2] = h.ipURL
                   /\ h.sent[2].host.kind = "ip"

\* the resolution of a handler in dual-response mode has failed, and the
\* hostname form is on the wire
C28_Witness ==
    \E h \in Running :
        /\ DualResponse(h)
        /\ ResolutionFailed(h)
        /\ Len(h.out) = 1
        /\ h.out[1].payload.Address = h.proxyURL

\* the first send of handler h has failed: all its sends have, or of its
\* two sends the one on the wire is the second
FirstSendFailed(h) ==
    /\ h.writes >= 1
    /\ \/ h.failed = h.writes
       \/ h.writes = 2 /\ Len(h.out) = 1 /\ h.out[1].payload.Address # h.sent[1]

\* C29 as stated: a handler with a failed send has returned, and when it is
\* its first send that failed it has made no other send and no resolution.
C29_AsStated ==
    \A h \in Running :
        h.failed >= 1 =>
            /\ Completed(h)
            /\ FirstSendFailed(h) => h.writes = 1 /\ h.lookups = 0

\* C29: no datagram is sent twice; a handler in single-response mode whose
\* send failed has returned after that one send, without a resolution; a
\* handler in dual-response mode whose first send failed goes on as after a
\* send that succeeded: it has returned only after the resolution, and after
\* the send of the resolved URL when the resolution gave one.
C29_NoRetry ==
    \A h \in Running :
        /\ h.writes <= (IF DualResponse(h) THEN 2 ELSE 1)
        /\ h.writes = 2 => h.sent[1] # h.sent[2]
        /\ ~DualResponse(h) /\ h.failed >= 1 =>
               Completed(h) /\ h.writes = 1 /\ h.lookups = 0
        /\ DualResponse(h) /\ h.writes = 2 => Completed(h)
        /\ DualResponse(h) /\ FirstSendFailed(h) =>
               /\ h.pc \in {"resolve", "send2", "done"}
               /\ Completed(h) =>
                      /\ h.lookups = 1
                      /\ h.ipURL # EmptyURL => h.writes = 2 /\ h.sent[2] = h.ipURL

\* the first send of a handler in dual-response mode failed; the handler
\* has resolved the hostname all the same, and the literal form is its only
\* datagram on the wire
C29_Witness ==
    \E h \in Running :
        /\ DualResponse(h)
        /\ Completed(h)
        /\ h.failed = 1 /\ h.writes = 2 /\ h.lookups = 1
        /\ Len(h.out) = 1
        /\ h.out[1].payload.Address = h.ipURL

\* main is past fetchInitialServerInfo
Started == mainPC \notin {"createUDPListeners", "fetchInitial"}

\* C30: no handler calls FetchInfo twice; the call is the step of a handler
\* whose Get returned nil, and a handler whose fetch failed returns without
\* an identity; once main is past the fetch of the startup, a cache changes
\* only in the Set of a handler that fetched, never in a step of the clock,
\* of a loop or of main.
C30_FetchOnlyOnMiss ==
    [][/\ \A h \in Running :
              Stepped(h) =>
                  \A g \in RunningNext :
                      CopiesIn(g, handlers') > CopiesIn(g, handlers) =>
                          /\ g.fetches <= 1
                          /\ g.fetches > h.fetches =>
                                 h.pc = "fetch" /\ h.serverInfo.nil /\ h.records = 1
                          /\ g.fetchErr => g.pc = "done" /\ g.serverInfo.nil /\ g.writes = 0
       /\ Started /\ (caches' # caches \/ lastSet' # lastSet) =>
              \E h \in Running :
                  Stepped(h) /\ h.pc = "set" /\ h.fetches = 1 /\ ~h.fetchErr]_vars

\* the fetch of one handler failed and the handler has returned; the
\* handler of another query has fetched the identity and written the cache
C30_Witness ==
    /\ Started
    /\ \E h1, h2 \in Running :
           /\ Completed(h1) /\ h1.fetches = 1 /\ h1.fetchErr
           /\ h2.fetches = 1 /\ h2.sets = 1 /\ ~h2.fetchErr
           /\ caches[h2.cache].Info = h2.serverInfo

\* goroutine p holds mutex o, for reading or for writing
Holds(p, o) == mutex[o].w = p \/ p \in mutex[o].r
\* the next statement of goroutine p is an upstream fetch, a DNS resolution
\* or a UDP send
AtBlockingCall(p) == goroutines[p].pc \in {"fetch", "resolve", "send", "send2"}
\* the next statement of goroutine p is Lock or RLock of mutex o
Acquires(p, o) ==
    IF o = "stats"
    THEN goroutines[p].pc \in {"rrLock", "gsRLock"}
    ELSE goroutines[p].pc \in {"getRLock", "setLock"}
\* goroutine p waits: its Lock or RLock of mutex o cannot return
Waits(p, o) ==
    \/ goroutines[p].pc \in {"rrLock", "setLock"} /\ Acquires(p, o) /\ ~CanLock(mutex[o])
    \/ goroutines[p].pc \in {"gsRLock", "getRLock"} /\ Acquires(p, o) /\ ~CanRLock(mutex[o])

\* C31: a goroutine at a fetch, a resolution or a send holds neither the
\* lock of the stats nor the lock of the cache; a goroutine about to take a
\* lock holds none, and none ever holds both; so whenever a goroutine waits
\* for a lock, the lock is held by a goroutine whose next statement is
\* neither a blocking call nor the taking of a lock, and that can go on.
C31_NoLockAcrossBlockingCall ==
    \A p \in Goroutines :
        /\ AtBlockingCall(p) => ~Holds(p, "stats") /\ ~Holds(p, "cache")
        /\ Acquires(p, "stats") \/ Acquires(p, "cache") =>
               ~Holds(p, "stats") /\ ~Holds(p, "cache")
        /\ ~(Holds(p, "stats") /\ Holds(p, "cache"))
        /\ \A o \in {"stats", "cache"} :
               Waits(p, o) =>
                   \E q \in Goroutines \ {p} :
                       /\ Holds(q, o)
                       /\ ~AtBlockingCall(q)
                       /\ ~Acquires(q, "stats") /\ ~Acquires(q, "cache")

\* one handler is in its fetch and another in its resolution while a third
\* goroutine is inside a locked method
C31_Witness ==
    \E p, q, r \in Goroutines :
        /\ At(p, "fetch")
        /\ At(q, "resolve")
        /\ Holds(r, "stats") \/ Holds(r, "cache")

\* the ways handler h can have ended
BlockedSilent(h) == BlockedSource(h.addr.IP) /\ h.records = 0 /\ h.fetches = 0 /\ h.writes = 0
UnresolvableSilent(h) == h.records = 1 /\ h.fetchErr /\ ~Resolved(h) /\ h.writes = 0
Responded(h) == h.records = 1 /\ Resolved(h) /\ h.writes \in {1, 2}

\* C32: with handlers that are scheduled and calls that return, again and
\* again no handler is in flight, so that every handler dispatched comes to
\* its end; a handler that has ended is blocked-silent, unresolvable-silent
\* or has responded, and a handler never makes more than two sends nor puts
\* more than two datagrams on the wire.
C32_HandlersEnd ==
    /\ []<>Quiescent
    /\ [](\A h \in Running :
              /\ h.writes <= 2 /\ Len(h.out) <= h.writes
              /\ Completed(h) => BlockedSilent(h) \/ UnresolvableSilent(h) \/ Responded(h))

\* two handlers have ended, one that responded with two datagrams and one
\* that ended without a send
C32_Witness ==
    /\ Quiescent
    /\ \E h \in Running : Responded(h) /\ Len(h.out) = 2
    /\ \E h \in Running : BlockedSilent(h) \/ UnresolvableSilent(h)


(***************************************************************************)
(* C33: the fields of the upstream body                                    *)
(***************************************************************************)
\* the identity is the one of a 200 answer of the upstream whose JSON object
\* has both the key Id and the key ServerName
FromCompleteBody(info) ==
    \E a \in env.upstream :
        /\ a.transport = "ok" /\ a.status = StatusOK /\ a.body = "json"
        /\ a.Id # Absent /\ a.ServerName # Absent
        /\ info.Id = a.Id /\ info.ServerName = a.ServerName

\* C33 as stated: every identity a handler got from the fetcher or from its
\* cache, every identity stored in a cache and every identity advertised in
\* a datagram comes from an upstream body that has both the string field Id
\* and the string field ServerName; a 200 answer whose JSON object lacks one
\* of them is not accepted as an identity.
C33_AsStated ==
    /\ \A h \in Running :
          /\ ~h.serverInfo.nil => FromCompleteBody(h.serverInfo)
          /\ \A i \in 1..Len(h.out) :
                FromCompleteBody([Id |-> h.out[i].payload.Id,
                                  ServerName |-> h.out[i].payload.Name])
    /\ \A f \in {"v4", "v6"} : ~caches[f].Info.nil => FromCompleteBody(caches[f].Info)

\* a handler has advertised, and its cache stores, an identity with an empty
\* name that FetchInfo took from a 200 answer without the key ServerName
C33_IncompleteAdvertised ==
    \E h \in Running :
        /\ Completed(h) /\ ~h.fetchErr /\ Len(h.out) >= 1
        /\ h.out[1].payload.Name = "" /\ h.out[1].payload.Id = "abc123"
        /\ caches[h.cache].Info = SystemInfoResponse("abc123", "")
        /\ \E a \in env.upstream : a.status = StatusOK /\ a.body = "json" /\ a.ServerName = Absent

(***************************************************************************)
(* C34: the statistics are observational                                   *)
(***************************************************************************)
\* what a step of handler h may make of the handler and of the caches, as a
\* function of the handler, the caches, the blacklist, the clock and the
\* answers of the surroundings: the statistics do not occur in it
StatsFreeOutcomes(h) ==
    LET Same(g) == [g |-> g, caches |-> caches]
    IN  CASE h.pc = "check" ->
               { Same(IF IsBlocked(ipBlacklist, IPString(h.addr.IP))
                      THEN [h EXCEPT !.pc = "done"]
                      ELSE [h EXCEPT !.pc = "get", !.records = @ + 1]) }
          [] h.pc = "get" ->
               LET info == Get(caches[h.cache], now)
               IN  { Same([h EXCEPT !.serverInfo = info,
                                    !.fresh = Fresh(lastSet[h.cache], caches[h.cache].Duration, now),
                                    !.pc = IF info.nil THEN "fetch" ELSE "send"]) }
          [] h.pc = "fetch" ->
               { Same(IF FetchInfo(a).err
                      THEN [h EXCEPT !.fetches = @ + 1, !.fetchErr = TRUE, !.pc = "done"]
                      ELSE [h EXCEPT !.fetches = @ + 1, !.pc = "set",
                                     !.serverInfo = FetchInfo(a).info]) : a \in env.upstream }
          [] h.pc = "set" ->
               { [g |-> [h EXCEPT !.sets = @ + 1, !.pc = "send"],
                  caches |-> [caches EXCEPT ![h.cache] = Set(@, h.serverInfo, now)]] }
          [] h.pc = "send" ->
               { Same([SendResponse(h, AddressURL(h), ok) EXCEPT
                           !.pc = IF DualResponse(h) THEN "resolve" ELSE "done"]) :
                     ok \in WriteResults(h) }
          [] h.pc = "resolve" ->
               { Same(IF ResolveHostnameToIP(h.proxyURL, a).err
                      THEN [h EXCEPT !.lookups = @ + 1, !.pc = "done"]
                      ELSE [h EXCEPT !.lookups = @ + 1, !.pc = "send2",
                                     !.ipURL = ResolveHostnameToIP(h.proxyURL, a).url]) :
                     a \in LookupIP(SplitHost(h.proxyURL)) }
          [] h.pc = "send2" ->
               { Same([SendResponse(h, h.ipURL, ok) EXCEPT !.pc = "done"]) :
                     ok \in WriteResults(h) }
          [] OTHER -> {}

\* C34: RequestStats is observational. In every state, whatever the
\* statistics hold, a step of a handler makes of the handler (its position,
\* its identity, its datagrams) and of the caches one of the outcomes that
\* the handler, the caches, the blacklist, the clock and the answers of the
\* upstream, of DNS and of the socket determine without the statistics; the
\* only steps that change the statistics are the RecordRequest of a handler
\* of an allowed source, and every other step leaves the caches alone
\* unless it is the initial fetch. Two runs with the same inputs that differ
\* in the statistics therefore send the same datagrams and hold the same
\* cache contents.
C34_StatsObservational ==
    [][ /\ \A h \in Running :
              Stepped(h) /\ ~Completed(h) =>
                  \E o \in StatsFreeOutcomes(h) :
                      /\ handlers' = (handlers (-) SetToBag({h})) (+) SetToBag({o.g})
                      /\ caches' = o.caches
        /\ requestStats' # requestStats =>
              \E h \in Running : Stepped(h) /\ h.pc = "check"
        /\ caches' # caches =>
              \/ \E h \in Running : Stepped(h) /\ h.pc = "set"
              \/ mainPC = "fetchInitial" ]_vars

\* a handler has answered its client while the statistics held the record
\* of another client's request
C34_Witness ==
    \E h \in Running :
        /\ Completed(h) /\ Len(h.out) >= 1
        /\ requestStats.TotalRequests = 2
        /\ requestStats.LastRequestIP # IPString(h.addr.IP)

(***************************************************************************)
(* C35: the frame of a blocked request, and of the blacklist               *)
(***************************************************************************)
\* C35: a handler for a blocked requester makes no upstream fetch and no
\* cache write: each of its steps leaves both caches unchanged, and it
\* returns with no fetch, no Set, no lookup and no send made; the rule set
\* of the blacklist is the one built from the configuration in every state,
\* no step of a handler (IsBlocked included) or of anything else changes it,
\* and its count stays the same.
C35_BlockedHandlerFrame ==
    [][ /\ \A h \in Running :
              /\ Stepped(h) => ipBlacklist' = ipBlacklist
              /\ Stepped(h) /\ BlockedSource(h.addr.IP) =>
                    /\ caches' = caches
                    /\ lastSet' = lastSet
                    /\ h.pc \in {"check", "done"}
              /\ BlockedSource(h.addr.IP) =>
                    h.fetches = 0 /\ h.sets = 0 /\ h.lookups = 0 /\ h.writes = 0
        /\ ipBlacklist' = ipBlacklist
        /\ ipBlacklist = BlacklistNew(BlacklistString)
        /\ Count(ipBlacklist') = Count(ipBlacklist) ]_vars

\* a handler for a blocked requester has returned while its cache is empty:
\* a handler for an allowed one would have fetched
C35_Witness ==
    \E h \in Running :
        /\ BlockedSource(h.addr.IP) /\ Completed(h)
        /\ caches[h.cache].Info.nil
        /\ \E a \in env.upstream : ~FetchInfo(a).err

(***************************************************************************)
(* C36: an expired entry                                                   *)
(***************************************************************************)
\* the cache stores an identity whose TTL has elapsed at time t
Expired(c, t) == ~c.Info.nil /\ c.Duration > 0 /\ t - c.Timestamp >= c.Duration

\* C36: a handler never answers from an expired entry. An expired entry is
\* unreadable through Get; a handler whose Get meets it goes to the fetch
\* with no identity; when that fetch fails the handler returns with nothing
\* sent and the stale identity stays stored, still unreadable; the entry
\* changes only by the Set of a handler that fetched successfully, after
\* which Get returns the fetched identity; and a handler that answers
\* without a fetch read its identity within the TTL of a Set.
C36_NoAnswerFromExpired ==
    [][ /\ \A f \in {"v4", "v6"} :
              Expired(caches[f], now) =>
                  /\ Get(caches[f], now) = NilInfo
                  /\ caches'[f] # caches[f] =>
                        \E h \in Running :
                            /\ Stepped(h) /\ h.pc = "set" /\ h.cache = f
                            /\ h.fetches = 1 /\ ~h.fetchErr /\ ~h.serverInfo.nil
                            /\ caches'[f].Info = h.serverInfo
                            /\ Get(caches'[f], now') = h.serverInfo
        /\ \A h \in Running :
              Stepped(h) /\ Expired(caches[h.cache], now) =>
                  \A g \in RunningNext :
                      CopiesIn(g, handlers') > CopiesIn(g, handlers) =>
                          /\ h.pc = "get" =>
                                g.pc = "fetch" /\ g.serverInfo.nil /\ g.out = <<>>
                          /\ h.pc = "fetch" /\ g.fetchErr =>
                                /\ Completed(g) /\ g.out = <<>> /\ g.writes = 0
                                /\ caches' = caches
                                /\ ~caches'[h.cache].Info.nil
                                /\ Get(caches'[h.cache], now') = NilInfo
        /\ \A h \in Running :
              h.writes >= 1 /\ h.fetches = 0 => h.fresh /\ ~h.serverInfo.nil ]_vars

\* a handler met an expired entry, its refresh failed and it has returned
\* with nothing sent; the stale identity is stored and Get does not return
\* it
C36_Witness ==
    \E h \in Running :
        /\ Completed(h) /\ h.fetchErr /\ h.out = <<>>
        /\ Expired(caches[h.cache], now)
        /\ Get(caches[h.cache], now) = NilInfo
        /\ ~h.fresh

(***************************************************************************)
(* C37: the identity of the datagrams                                      *)
(***************************************************************************)
\* the pair is the id and the name of one identity the upstream gives
PairOfOneFetch(id, name) ==
    \E a \in env.upstream :
        ~FetchInfo(a).err /\ id = FetchInfo(a).info.Id /\ name = FetchInfo(a).info.ServerName

\* C37: in every datagram the pair (Id, Name) is that of one identity
\* record, the result of one fetch, and it is the identity the handler
\* holds; both datagrams of a dual response carry the same pair, whatever
\* other handlers store in the cache between the two sends: the identity a
\* handler holds never changes once it has one.
C37_OnePairPerHandler ==
    [][ /\ \A h \in Running :
              /\ \A i \in 1..Len(h.out) :
                    /\ PairOfOneFetch(h.out[i].payload.Id, h.out[i].payload.Name)
                    /\ h.out[i].payload.Id = h.serverInfo.Id
                    /\ h.out[i].payload.Name = h.serverInfo.ServerName
              /\ \A i, j \in 1..Len(h.out) :
                    /\ h.out[i].payload.Id = h.out[j].payload.Id
                    /\ h.out[i].payload.Name = h.out[j].payload.Name
        /\ \A h \in Running :
              Stepped(h) /\ ~h.serverInfo.nil =>
                  \A g \in RunningNext :
                      CopiesIn(g, handlers') > CopiesIn(g, handlers) =>
                          g.serverInfo = h.serverInfo ]_vars

\* a handler that wrote its identity into the cache has returned after the
\* two datagrams of a dual response, both with its identity, while the
\* cache holds the identity another handler stored after it
C37_Witness ==
    \E h \in Running :
        /\ Completed(h) /\ Len(h.out) = 2 /\ h.sets = 1
        /\ ~caches[h.cache].Info.nil
        /\ caches[h.cache].Info.Id # h.out[2].payload.Id
        /\ h.out[1].payload.Id = h.out[2].payload.Id
        /\ h.out[1].payload.Address # h.out[2].payload.Address


(***************************************************************************)
(* C38: dispatch and cancellation                                          *)
(***************************************************************************)
\* the loop of socket c dispatches a handler in this step
Dispatches(c) ==
    \E addr \in RequestersOf(c) :
        CopiesIn(NewHandler(c, addr), handlers') > CopiesIn(NewHandler(c, addr), handlers)

\* C38: once the loop of a socket has observed the cancellation (it has
\* returned at its select on ctx.Done()) it dispatches no further handler;
\* between cancel() and that observation it dispatches at most one handler,
\* for the datagram of the ReadFromUDP that was in progress, and observes
\* the cancellation when it comes back to the top of the loop.
C38_AtMostOneLateDispatch ==
    [][ \A c \in Conns :
          /\ late[c] <= 1 /\ late'[c] <= 1
          /\ loops[c] \in {"returned", "idle"} => ~Dispatches(c) /\ late'[c] = late[c]
          /\ loops[c] = "returned" => loops'[c] \in {"returned", "idle"}
          /\ Dispatches(c) /\ ctxDone =>
                /\ loops[c] = "read" /\ late[c] = 0 /\ late'[c] = 1
                /\ loops'[c] = "returned"
          /\ Dispatches(c) /\ ~ctxDone => late'[c] = late[c]
          /\ ctxDone => ctxDone' ]_vars

\* a loop has returned after cancel(), and the handler it dispatched for the
\* datagram that its read returned after cancel() is in flight
C38_Witness ==
    \E c \in Conns :
        /\ ctxDone /\ loops[c] = "returned" /\ late[c] = 1
        /\ \E h \in Running : h.conn = c /\ h.pc = "check"

AcceptedInteger(text) == ~Atoi(text).err

\* C40 as stated: the TTL that GetDuration derives from CACHE_DURATION is
\* never negative: an unset or non-numeric value gives 24 hours, "0" gives 0
\* (never expire), and every other integer h is either not accepted (24
\* hours) or gives exactly h hours, the product not wrapped around.
C40_AsStated ==
    call.fn = "GetDuration" /\ Returned =>
        LET text == call.in.cacheDurationStr
        IN  /\ Result >= 0
            /\ text = <<>> \/ ~AcceptedInteger(text) => Result = DefaultHours * Hour
            /\ text = <<"0">> => Result = 0
            /\ text # <<>> /\ AcceptedInteger(text) =>
                  \/ Result = DefaultHours * Hour
                  \/ Result = Atoi(text).value * Hour

\* GetDuration has returned a TTL below zero for a count of hours above
\* zero, and a cache of that TTL does not give back the identity stored in
\* it at this very moment
C40_NegativeTTL ==
    /\ call.fn = "GetDuration" /\ Returned
    /\ AcceptedInteger(call.in.cacheDurationStr)
    /\ Atoi(call.in.cacheDurationStr).value > 0
    /\ Result < 0
    /\ Get(Set(CacheNew(Result), SystemInfoResponse("abc123", "Home Media"), now), now) = NilInfo
====
